---------------------------- MODULE Spec2Model ----------------------------
(***************************************************************************)
(* Scene detection orchestration (services/sceneDetector.js), the ffmpeg   *)
(* fallback detector (services/ffmpeg.js), frame-range calculation and     *)
(* validation, and the /extract route.                                     *)
(*                                                                         *)
(* Number representation.  Frame numbers are integers.  A JavaScript       *)
(* number that may be fractional is an exact rational <<n, d>> with d > 0  *)
(* (floating-point rounding error is not modelled).  Times are in          *)
(* milliseconds: rationals before toFixed(3), integers after it.           *)
(***************************************************************************)
EXTENDS Integers, Sequences, FiniteSets, TLC

(***************************************************************************)
(* JavaScript values of a request field or an optional argument: a number  *)
(* (here an integer), undefined, null, or a value that parses to NaN.      *)
(***************************************************************************)
Num(n) == [t |-> "number", v |-> n]
Undefined == [t |-> "undefined", v |-> 0]
Null == [t |-> "null", v |-> 0]
NotANumber == [t |-> "NaN", v |-> 0]
IsNumber(x) == x.t = "number"
\* parseInt of a field: the integer, or NaN for undefined, null and non-numeric text
ParseInt(x) == IF IsNumber(x) THEN x ELSE NotANumber

(***************************************************************************)
(* Exact rational arithmetic                                               *)
(***************************************************************************)
Rat(n, d) == <<n, d>>
FromInt(n) == <<n, 1>>
RLt(a, b) == a[1] * b[2] < b[1] * a[2]
RAdd(a, b) == <<a[1] * b[2] + b[1] * a[2], a[2] * b[2]>>
RSub(a, b) == <<a[1] * b[2] - b[1] * a[2], a[2] * b[2]>>
RMul(a, b) == <<a[1] * b[1], a[2] * b[2]>>
\* a / b for b > 0
RDiv(a, b) == <<a[1] * b[2], a[2] * b[1]>>
RMax(a, b) == IF RLt(a, b) THEN b ELSE a
RMin(a, b) == IF RLt(b, a) THEN b ELSE a
\* Number.isInteger
IsInteger(a) == a[1] % a[2] = 0
\* Math.round: the nearest integer, halves rounded towards +Infinity
MathRound(a) == (2 * a[1] + a[2]) \div (2 * a[2])
Max(a, b) == IF a < b THEN b ELSE a
Min(a, b) == IF b < a THEN b ELSE a

(***************************************************************************)
(* Bounds of the model                                                     *)
(***************************************************************************)
MaxFrame == 5
MaxOffset == 6
MaxLength == 3
MaxTotal == 6
MaxField == 3
MaxFieldOffset == 2
MaxProbeTotal == 4
\* the video's timeline is sampled every TimeStep milliseconds, MaxTicks times
TimeStep == 500
MaxTicks == 4


(***************************************************************************)
(* Program constants                                                       *)
(***************************************************************************)
MaxExtractFrames == 1000
\* seconds
DEFAULT_MIN_SCENE_LENGTH == 1
DEFAULT_THRESHOLD == 20

ErrStartNotPositive == "Start frame must be a positive integer"
ErrEndNotPositive == "End frame must be a positive integer"
ErrStartAfterEnd == "Start frame must be less than or equal to end frame"
\* the digits after the decimal point of r / d, r < d
RECURSIVE FractionDigits(_, _, _)
FractionDigits(r, d, places) ==
    IF r = 0 \/ places = 0 THEN ""
    ELSE ToString((10 * r) \div d) \o FractionDigits((10 * r) % d, d, places - 1)

\* the decimal expansion of r / d ends within the given number of places
RECURSIVE Terminates(_, _, _)
Terminates(r, d, places) ==
    \/ r = 0
    \/ places > 0 /\ Terminates((10 * r) % d, d, places - 1)

\* `${x}` of a number x = <<n, d>>: an integer prints without a point, a
\* value whose decimal expansion ends within six places prints those digits.
\* Any other value prints the shortest digits that read back as the same
\* double, possibly with an exponent; that text is left unspecified here
NumberToString(x) ==
    LET magnitude == IF x[1] < 0 THEN -x[1] ELSE x[1]
        whole == ToString(magnitude \div x[2])
        fraction == FractionDigits(magnitude % x[2], x[2], 6)
    IN  IF Terminates(magnitude % x[2], x[2], 6)
        THEN (IF x[1] < 0 THEN "-" ELSE "") \o whole
                 \o (IF fraction = "" THEN "" ELSE "." \o fraction)
        ELSE CHOOSE text \in STRING : TRUE

\* err.message of the errors ffprobe and ffmpeg hand to their callbacks
FfprobeMessages == {"ffprobe exited with code 1"}
FfmpegMessages == {"ffmpeg exited with code 1"}
\* the messages getVideoInfo rejects with
ProbeErrors ==
    {"Failed to probe video: " \o m : m \in FfprobeMessages}
        \cup {"No video stream found"}
\* what a probe answers: the metadata ("ok") or one of the rejections
ProbeAnswers == {"ok"} \cup ProbeErrors
\* the messages the ffmpeg helpers reject with
SceneDetectionErrors == {"Scene detection failed: " \o m : m \in FfmpegMessages}
ExtractionErrors == {"Extraction failed: " \o m : m \in FfmpegMessages}
ThumbnailErrors == {"Thumbnail generation failed: " \o m : m \in FfmpegMessages}
ReencodingErrors == {"Re-encoding failed: " \o m : m \in FfmpegMessages}

ErrEndExceedsTotal(totalFrames) ==
    "End frame cannot exceed total frames (" \o NumberToString(totalFrames) \o ")"
ErrTooManyFrames == "Cannot extract more than 1000 frames at once"

VARIABLES
    video,       \* the source file: duration (ms), frame rate, content-difference signal
    pc,          \* "idle" before detectScenes is called, "called" afterwards
    options,     \* the options of the detectScenes call
    locals,      \* fps, minSceneLengthSec and threshold of the call
    events,      \* events the primary process has still to deliver, in order
    output,      \* stdout captured from the primary process
    errorOutput, \* stderr captured from the primary process
    log,         \* which console.error branches have run
    fallbacks,   \* one record per invocation of fallbackDetectScenes
    promise      \* the promise detectScenes returned

detVars == <<video, pc, options, locals, events, output, errorOutput, log,
             fallbacks, promise>>

VARIABLES
    calc,        \* the last calculateFrameRange call: its arguments and result
    validation,  \* the last validateFrameRange call: its arguments and result
    extract,     \* the /extract request in progress and its response
    peer,        \* concurrent detectScenes calls: the requests, the call whose
                 \* handler runs, and the state of the call that waits
    detectRoute, \* the /detect-scenes request in progress and its response
    upload,      \* the /upload request in progress, its temporary file and
                 \* its response
    disk,        \* the files on disk, each by its absolute path
    preview      \* the /preview request in progress and its response

rangeVars == <<calc, validation, extract, peer, detectRoute, upload, disk, preview>>

\* validateFrameRange without the check of endFrame against totalFrames
validateFrameRange_NoTotalCheck(startFrame, endFrame, totalFrames) ==
    LET e1 == IF ~IsInteger(startFrame) \/ RLt(startFrame, FromInt(1))
              THEN <<ErrStartNotPositive>> ELSE <<>>
        e2 == IF ~IsInteger(endFrame) \/ RLt(endFrame, FromInt(1))
              THEN <<ErrEndNotPositive>> ELSE <<>>
        e3 == IF RLt(endFrame, startFrame)
              THEN <<ErrStartAfterEnd>> ELSE <<>>
        frameCount == RAdd(RSub(endFrame, startFrame), FromInt(1))
        e5 == IF RLt(FromInt(MaxExtractFrames), frameCount)
              THEN <<ErrTooManyFrames>> ELSE <<>>
        errors == e1 \o e2 \o e3 \o e5
    IN  [valid |-> Len(errors) = 0, errors |-> errors, frameCount |-> frameCount]

\* validateFrameRange with startFrame < 1 and endFrame < 1 in place of the
\* positive-integer checks
validateFrameRange_NoIntegerCheck(startFrame, endFrame, totalFrames) ==
    LET e1 == IF RLt(startFrame, FromInt(1))
              THEN <<ErrStartNotPositive>> ELSE <<>>
        e2 == IF RLt(endFrame, FromInt(1))
              THEN <<ErrEndNotPositive>> ELSE <<>>
        e3 == IF RLt(endFrame, startFrame)
              THEN <<ErrStartAfterEnd>> ELSE <<>>
        e4 == IF RLt(totalFrames, endFrame)
              THEN <<ErrEndExceedsTotal(totalFrames)>> ELSE <<>>
        frameCount == RAdd(RSub(endFrame, startFrame), FromInt(1))
        e5 == IF RLt(FromInt(MaxExtractFrames), frameCount)
              THEN <<ErrTooManyFrames>> ELSE <<>>
        errors == e1 \o e2 \o e3 \o e4 \o e5
    IN  [valid |-> Len(errors) = 0, errors |-> errors, frameCount |-> frameCount]

\* validateFrameRange that returns at the first failed check
validateFrameRange_ShortCircuit(startFrame, endFrame, totalFrames) ==
    LET frameCount == RAdd(RSub(endFrame, startFrame), FromInt(1))
        errors ==
            IF ~IsInteger(startFrame) \/ RLt(startFrame, FromInt(1))
            THEN <<ErrStartNotPositive>>
            ELSE IF ~IsInteger(endFrame) \/ RLt(endFrame, FromInt(1))
            THEN <<ErrEndNotPositive>>
            ELSE IF RLt(endFrame, startFrame) THEN <<ErrStartAfterEnd>>
            ELSE IF RLt(totalFrames, endFrame) THEN <<ErrEndExceedsTotal(totalFrames)>>
            ELSE IF RLt(FromInt(MaxExtractFrames), frameCount) THEN <<ErrTooManyFrames>>
            ELSE <<>>
    IN  [valid |-> Len(errors) = 0, errors |-> errors, frameCount |-> frameCount]

(***************************************************************************)
(* validateFrameRange(startFrame, endFrame, totalFrames); the arguments    *)
(* are rationals.  Every check is evaluated and pushes its own message.    *)
(***************************************************************************)
validateFrameRange(startFrame, endFrame, totalFrames) ==
    LET e1 == IF ~IsInteger(startFrame) \/ RLt(startFrame, FromInt(1))
              THEN <<ErrStartNotPositive>> ELSE <<>>
        e2 == IF ~IsInteger(endFrame) \/ RLt(endFrame, FromInt(1))
              THEN <<ErrEndNotPositive>> ELSE <<>>
        e3 == IF RLt(endFrame, startFrame)
              THEN <<ErrStartAfterEnd>> ELSE <<>>
        e4 == IF RLt(totalFrames, endFrame)
              THEN <<ErrEndExceedsTotal(totalFrames)>> ELSE <<>>
        frameCount == RAdd(RSub(endFrame, startFrame), FromInt(1))
        e5 == IF RLt(FromInt(MaxExtractFrames), frameCount)
              THEN <<ErrTooManyFrames>> ELSE <<>>
        errors == e1 \o e2 \o e3 \o e4 \o e5
    IN  [valid |-> Len(errors) = 0, errors |-> errors, frameCount |-> frameCount]

\* calculateFrameRange with the offset applied to the start only
calculateFrameRange_EndNotShifted(startFrame, endFrame, offset, length, totalFrames) ==
    LET start0 == startFrame + offset
        end0 == endFrame
        end1 == IF IsNumber(length) /\ length.v # 0 /\ length.v > 0
                THEN start0 + length.v - 1 ELSE end0
        newStart == Max(1, start0)
        end2 == Min(totalFrames, end1)
        newEnd == IF newStart > end2 THEN newStart ELSE end2
    IN  [start_frame |-> newStart, end_frame |-> newEnd,
         frame_count |-> newEnd - newStart + 1]

\* a length that only shortens the shifted scene, never extends past its end
calculateFrameRange_LengthWithinScene(startFrame, endFrame, offset, length, totalFrames) ==
    LET start0 == startFrame + offset
        end0 == endFrame + offset
        end1 == IF IsNumber(length) /\ length.v # 0 /\ length.v > 0
                THEN Min(end0, start0 + length.v - 1) ELSE end0
        newStart == Max(1, start0)
        end2 == Min(totalFrames, end1)
        newEnd == IF newStart > end2 THEN newStart ELSE end2
    IN  [start_frame |-> newStart, end_frame |-> newEnd,
         frame_count |-> newEnd - newStart + 1]

(***************************************************************************)
(* calculateFrameRange(startFrame, endFrame, offset, length, totalFrames); *)
(* integers, length a Num or Undefined.                                    *)
(***************************************************************************)
calculateFrameRange(startFrame, endFrame, offset, length, totalFrames) ==
    LET start0 == startFrame + offset
        end0 == endFrame + offset
        \* if (length && length > 0)
        end1 == IF IsNumber(length) /\ length.v # 0 /\ length.v > 0
                THEN start0 + length.v - 1 ELSE end0
        newStart == Max(1, start0)
        end2 == Min(totalFrames, end1)
        newEnd == IF newStart > end2 THEN newStart ELSE end2
    IN  [start_frame |-> newStart, end_frame |-> newEnd,
         frame_count |-> newEnd - newStart + 1]


(***************************************************************************)
(* Inputs of the range operations                                          *)
(***************************************************************************)
\* the scene and arguments of the documented examples
ExampleFrames == {100, 340}
ExampleOffsets == {-100, -50}
ExampleLengths == {50}
ExampleTotals == {500}

SceneFrames == (1..MaxFrame) \cup ExampleFrames
Offsets == ((-MaxOffset)..MaxOffset) \cup ExampleOffsets
Lengths == {Undefined} \cup {Num(n) : n \in ((-1)..MaxLength) \cup ExampleLengths}
Totals == (1..MaxTotal) \cup ExampleTotals

NoRange == [start_frame |-> 0, end_frame |-> 0, frame_count |-> 0]

CalcInit ==
    calc = [called |-> FALSE, startFrame |-> 0, endFrame |-> 0, offset |-> 0,
            length |-> Undefined, totalFrames |-> 0, result |-> NoRange]

\* one call of calculateFrameRange on a scene [startFrame, endFrame]
CalculateFrameRangeCall ==
    /\ ~calc.called
    /\ \E s \in SceneFrames, e \in SceneFrames, o \in Offsets, l \in Lengths, t \in Totals :
        /\ s <= e
        /\ calc' = [called |-> TRUE, startFrame |-> s, endFrame |-> e, offset |-> o,
                    length |-> l, totalFrames |-> t,
                    result |-> calculateFrameRange(s, e, o, l, t)]
        /\ UNCHANGED <<detVars, validation, extract, peer, detectRoute, upload, disk, preview>>

\* arguments given to validateFrameRange: integers, halves, and values around
\* the 1000-frame ceiling
ValidateFrames ==
    {FromInt(n) : n \in ((-1)..MaxFrame) \cup {100, 500, 1000, 1001, 1200}}
        \cup {Rat(2 * n + 1, 2) : n \in 0..2}
ValidateTotals == {FromInt(n) : n \in (0..MaxTotal) \cup {1000, 2000}}

NoValidation == [valid |-> FALSE, errors |-> <<>>, frameCount |-> FromInt(0)]

ValidationInit ==
    validation = [called |-> FALSE, startFrame |-> FromInt(0), endFrame |-> FromInt(0),
                  totalFrames |-> FromInt(0), result |-> NoValidation]

\* one call of validateFrameRange
ValidateFrameRangeCall ==
    /\ ~validation.called
    /\ \E s \in ValidateFrames, e \in ValidateFrames, t \in ValidateTotals :
        /\ validation' = [called |-> TRUE, startFrame |-> s, endFrame |-> e,
                          totalFrames |-> t, result |-> validateFrameRange(s, e, t)]
        /\ UNCHANGED <<detVars, calc, extract, peer, detectRoute, upload, disk, preview>>


(***************************************************************************)
(* POST /extract (routes/extract.js)                                       *)
(***************************************************************************)
\* A path is a string, held as the sequence of its characters.
\* split at each "/"
RECURSIVE Segments(_, _, _)
Segments(p, current, done) ==
    IF p = <<>> THEN Append(done, current)
    ELSE IF Head(p) = "/" THEN Segments(Tail(p), <<>>, Append(done, current))
    ELSE Segments(Tail(p), Append(current, Head(p)), done)

\* drop "" and ".", and let ".." remove the segment before it
RECURSIVE NormalizeSegments(_, _)
NormalizeSegments(segments, kept) ==
    IF segments = <<>> THEN kept
    ELSE LET s == Head(segments)
         IN  IF s = <<>> \/ s = <<".">> THEN NormalizeSegments(Tail(segments), kept)
             ELSE IF s = <<".", ".">>
             THEN NormalizeSegments(Tail(segments),
                                    IF kept = <<>> THEN kept
                                    ELSE SubSeq(kept, 1, Len(kept) - 1))
             ELSE NormalizeSegments(Tail(segments), Append(kept, s))

RECURSIVE JoinSegments(_)
JoinSegments(segments) ==
    IF segments = <<>> THEN <<>>
    ELSE <<"/">> \o Head(segments) \o JoinSegments(Tail(segments))

\* the working directory of the server process
Cwd == <<"/", "w">>

\* path.resolve(p): absolute and normalized, relative paths taken from Cwd
PathResolve(p) ==
    LET absolute == IF p # <<>> /\ Head(p) = "/" THEN p ELSE Cwd \o <<"/">> \o p
        joined == JoinSegments(NormalizeSegments(Segments(absolute, <<>>, <<>>), <<>>))
    IN  IF joined = <<>> THEN <<"/">> ELSE joined

\* String.prototype.startsWith
StartsWith(str, prefix) ==
    Len(prefix) <= Len(str) /\ SubSeq(str, 1, Len(prefix)) = prefix

\* path.resolve(process.env.UPLOAD_FOLDER || './uploads'), the folder named u
UPLOAD_FOLDER == PathResolve(<<".", "/", "u">>)

isPathSafe(filepath, allowedDir) ==
    LET resolvedPath == PathResolve(filepath)
        resolvedAllowed == PathResolve(allowedDir)
    IN  StartsWith(resolvedPath, resolvedAllowed)

\* the directories on disk: the root, the working directory, the upload
\* folder, its sibling u-o and the output folder
DirectoriesOnDisk ==
    {<<"/">>,
     <<"/", "w">>,
     <<"/", "w", "/", "u">>,
     <<"/", "w", "/", "u", "-", "o">>,
     <<"/", "w", "/", "o">>}

\* the files on disk when the server starts: an upload, a file in the
\* sibling folder, and a file elsewhere
FilesOnDisk ==
    {<<"/", "w", "/", "u", "/", "x">>,
     <<"/", "w", "/", "u", "-", "o", "/", "x">>,
     <<"/", "w", "/", "e">>}

DiskInit == disk = FilesOnDisk

\* the path multer stores an upload under and the path of its re-encoded
\* copy, both in the upload folder
TempFile == <<"/", "w", "/", "u", "/", "t">>
OutputFile == <<"/", "w", "/", "u", "/", "o">>

\* OUTPUT_FOLDER and the path of an extracted scene in it
OUTPUT_FOLDER == PathResolve(<<".", "/", "o">>)
SceneFile == OUTPUT_FOLDER \o <<"/", "s">>

\* a path as the text of a message
RECURSIVE PathText(_)
PathText(filepath) ==
    IF filepath = <<>> THEN "" ELSE Head(filepath) \o PathText(Tail(filepath))

PathOf(segments) == IF segments = <<>> THEN <<"/">> ELSE JoinSegments(segments)

\* the file system's walk along the segments of an absolute path: every
\* segment but the last must lead through an existing directory, "" and "."
\* stay and ".." goes up; the walk tells whether it arrives
RECURSIVE Walk(_, _, _, _)
Walk(segments, current, inDirectory, files) ==
    IF segments = <<>> THEN TRUE
    ELSE IF ~inDirectory THEN FALSE
    ELSE LET s == Head(segments)
             next == Append(current, s)
         IN  IF s = <<>> \/ s = <<".">> THEN Walk(Tail(segments), current, TRUE, files)
             ELSE IF s = <<".", ".">>
             THEN Walk(Tail(segments),
                       IF current = <<>> THEN current
                       ELSE SubSeq(current, 1, Len(current) - 1),
                       TRUE, files)
             ELSE IF PathOf(next) \in DirectoriesOnDisk
             THEN Walk(Tail(segments), next, TRUE, files)
             ELSE IF PathOf(next) \in files
             THEN Walk(Tail(segments), next, FALSE, files)
             ELSE FALSE

\* fs.existsSync(filepath) on a disk holding the given files
ExistsSync(filepath, files) ==
    /\ filepath # <<>>
    /\ LET absolute == IF Head(filepath) = "/" THEN filepath
                       ELSE Cwd \o <<"/">> \o filepath
       IN  Walk(Segments(absolute, <<>>, <<>>), <<>>, TRUE, files)

fileExists(filepath) == ExistsSync(filepath, disk)

\* deleteFile(filepath): unlink the file if it exists; a directory is left
\* (unlinkSync throws and the error is logged)
deleteFile(filepath, files) ==
    IF ExistsSync(filepath, files) THEN files \ {PathResolve(filepath)} ELSE files

\* the files readdirSync(directory) lists
FilesIn(directory, files) ==
    {f \in files :
        LET segments == NormalizeSegments(Segments(f, <<>>, <<>>), <<>>)
        IN  PathOf(SubSeq(segments, 1, Len(segments) - 1)) = PathResolve(directory)}

\* body.filepath of a request: absent, an upload, the upload's name with a
\* trailing "/", a name not on disk, the sibling folder's file, and a path
\* that leaves the upload folder through ".."
RequestPaths ==
    {<<>>,
     <<"/", "w", "/", "u", "/", "x">>,
     <<"/", "w", "/", "u", "/", "x", "/">>,
     <<"/", "w", "/", "u", "/", "y">>,
     <<"/", "w", "/", "u", "-", "o", "/", "x">>,
     <<"/", "w", "/", "u", "/", ".", ".", "/", "e">>}
FrameFields == {Undefined, NotANumber} \cup {Num(n) : n \in 0..MaxField}
OffsetFields == {Undefined, NotANumber}
                    \cup {Num(n) : n \in (-MaxFieldOffset)..MaxFieldOffset}
ExtractFramesFields == {Undefined, Null, NotANumber}
                    \cup {Num(n) : n \in ((-1)..MaxField) \cup {1000, 1001}}
FpsFields == {Undefined, Num(24)}
ExtractBodies ==
    [filepath : RequestPaths, start_frame : FrameFields, end_frame : FrameFields,
     fps : FpsFields, start_offset : OffsetFields, extract_frames : ExtractFramesFields]
\* results of ffmpeg.getVideoInfo(filepath) for the request's file
ProbeResults ==
    [ok : {TRUE}, fps : {30}, total_frames : (0..MaxProbeTotal) \cup {1200},
     error : {""}]
        \cup {[ok |-> FALSE, fps |-> 30, total_frames |-> 0, error |-> e] :
                  e \in ProbeErrors}

NoBody == [filepath |-> <<>>, start_frame |-> Undefined, end_frame |-> Undefined,
           fps |-> Undefined, start_offset |-> Undefined, extract_frames |-> Undefined]
NoResponse == [status |-> 0, error |-> "", errors |-> <<>>]
\* a route that answers every failure with status 400
Response_BadRequest(status, error, errors) ==
    [status |-> IF status = 200 THEN 200 ELSE 400, error |-> error, errors |-> errors]
Response(status, error, errors) == [status |-> status, error |-> error, errors |-> errors]

ExtractInit ==
    extract = [pc |-> "idle", body |-> NoBody, fps |-> 0, videoFps |-> 0,
               totalFrames |-> 0,
               startFrame |-> 0, endFrame |-> 0, validation |-> NoValidation,
               startTime |-> FromInt(0), duration |-> FromInt(0),
               response |-> NoResponse]

\* lines 41-68: the range the route derives from the body
ExtractStartFrame(body) ==
    LET startFrame == ParseInt(body.start_frame).v
        offset == ParseInt(body.start_offset)
    IN  IF body.start_offset # Undefined /\ IsNumber(offset)
        THEN startFrame + offset.v ELSE startFrame

ExtractEndFrame(body) ==
    LET startFrame == ExtractStartFrame(body)
        endFrame == ParseInt(body.end_frame).v
        extractLength == ParseInt(body.extract_frames)
    IN  IF body.extract_frames # Undefined /\ body.extract_frames # Null
        THEN IF IsNumber(extractLength) /\ extractLength.v > 0
             THEN startFrame + extractLength.v - 1
             ELSE endFrame
        ELSE startFrame + (ParseInt(body.end_frame).v - ParseInt(body.start_frame).v)

\* the handler up to its first response or to the call of extractSegment
ExtractRespond(body, r) ==
    extract' = [extract EXCEPT !.pc = "responded", !.body = body, !.response = r,
                               !.fps = 0, !.videoFps = 0,
                               !.totalFrames = 0, !.startFrame = 0, !.endFrame = 0,
                               !.validation = NoValidation,
                               !.startTime = FromInt(0), !.duration = FromInt(0)]

ExtractRequest ==
    /\ extract.pc = "idle"
    /\ \E body \in ExtractBodies :
        IF body.filepath = <<>>
        THEN ExtractRespond(body, Response(400, "filepath is required", <<>>))
        ELSE IF body.start_frame = Undefined \/ body.end_frame = Undefined
        THEN ExtractRespond(body,
                 Response(400, "start_frame and end_frame are required", <<>>))
        ELSE IF ~isPathSafe(body.filepath, UPLOAD_FOLDER)
        THEN ExtractRespond(body, Response(403, "Invalid file path", <<>>))
        ELSE IF ~fileExists(body.filepath)
        THEN ExtractRespond(body, Response(404, "Video file not found", <<>>))
        ELSE extract' = [extract EXCEPT !.pc = "probing", !.body = body]
    /\ UNCHANGED <<detVars, calc, validation, peer, detectRoute, upload, disk, preview>>

\* validation.errors.join(', ')
RECURSIVE JoinErrors(_)
JoinErrors(errors) ==
    IF errors = <<>> THEN ""
    ELSE IF Len(errors) = 1 THEN errors[1]
    ELSE errors[1] \o ", " \o JoinErrors(Tail(errors))

\* lines 38-87: ffmpeg.getVideoInfo answered; the handler goes on to its
\* next response or to the call of extractSegment
ExtractProbed ==
    /\ extract.pc = "probing"
    /\ \E info \in ProbeResults :
        LET body == extract.body
        IN  IF ~info.ok
            THEN ExtractRespond(body, Response(500, info.error, <<>>))
            ELSE IF ~IsNumber(ParseInt(body.start_frame))
                        \/ ~IsNumber(ParseInt(body.end_frame))
            THEN ExtractRespond(body, Response(400, "Invalid frame numbers", <<>>))
            ELSE LET startFrame == ExtractStartFrame(body)
                     endFrame == ExtractEndFrame(body)
                     videoFps == IF IsNumber(body.fps) /\ body.fps.v # 0
                                 THEN body.fps.v ELSE info.fps
                     v == validateFrameRange(FromInt(startFrame), FromInt(endFrame),
                                             FromInt(info.total_frames))
                 IN  IF ~v.valid
                     THEN extract' = [pc |-> "responded", body |-> body,
                                      fps |-> info.fps, videoFps |-> videoFps,
                                      totalFrames |-> info.total_frames,
                                      startFrame |-> startFrame, endFrame |-> endFrame,
                                      validation |-> v,
                                      startTime |-> FromInt(0), duration |-> FromInt(0),
                                      response |-> Response(400, JoinErrors(v.errors),
                                                            v.errors)]
                     ELSE extract' = [pc |-> "extracting", body |-> body,
                                      fps |-> info.fps, videoFps |-> videoFps,
                                      totalFrames |-> info.total_frames,
                                      startFrame |-> startFrame, endFrame |-> endFrame,
                                      validation |-> v,
                                      startTime |-> Rat(startFrame - 1, videoFps),
                                      duration |-> Rat(endFrame - startFrame + 1, videoFps),
                                      response |-> NoResponse]
    /\ UNCHANGED <<detVars, calc, validation, peer, detectRoute, upload, disk, preview>>

\* deleteFile(filepath) of the file manager
DeleteFile(filepath) ==
    /\ disk' = deleteFile(filepath, disk)
    /\ UNCHANGED <<detVars, calc, validation, extract, peer, detectRoute, upload, preview>>

\* cleanupOldFiles(directory, maxAgeHours): every listed file whose
\* modification time is older than the limit is deleted
CleanupOldFiles(directory) ==
    /\ \E old \in SUBSET FilesIn(directory, disk) : disk' = disk \ old
    /\ UNCHANGED <<detVars, calc, validation, extract, peer, detectRoute, upload, preview>>

\* ffmpeg.extractSegment resolved: the download descriptor is returned
ExtractSegmentEnd ==
    /\ extract.pc = "extracting"
    /\ extract' = [extract EXCEPT !.pc = "responded",
                                   !.response = Response(200, "", <<>>)]
    /\ disk' = disk \cup {SceneFile}
    /\ UNCHANGED <<detVars, calc, validation, peer, detectRoute, upload, preview>>

\* ffmpeg.extractSegment rejected, with or without a partial file left in
\* the output folder: the catch block answers 500
ExtractSegmentError ==
    /\ extract.pc = "extracting"
    /\ \E error \in ExtractionErrors, written \in SUBSET {SceneFile} :
        /\ extract' = [extract EXCEPT !.pc = "responded",
                                       !.response = Response(500, error, <<>>)]
        /\ disk' = disk \cup written
    /\ UNCHANGED <<detVars, calc, validation, peer, detectRoute, upload, preview>>


(***************************************************************************)
(* POST /detect-scenes (routes/scenes.js) and POST /upload                 *)
(* (routes/upload.js): requests and initial state                          *)
(***************************************************************************)
\* a string that begins with a number, such as "0.2s" or "50abc"
Text(n) == [t |-> "text", v |-> n]
\* parseFloat of a field: numbers and numeric prefixes parse, anything else is NaN
ParseFloat(x) == IF x.t \in {"number", "text"} THEN Num(x.v) ELSE NotANumber

\* min_scene_length in thousandths of a second, threshold in its own unit
MinSceneLengthFields ==
    {Undefined, Null, NotANumber, Num(50), Num(100), Num(550), Num(300000),
     Num(300001), Text(200)}
ThresholdFields ==
    {Undefined, Null, NotANumber, Num(0), Num(1), Num(100), Num(101), Text(50)}
DetectBodies ==
    [filepath : RequestPaths, min_scene_length : MinSceneLengthFields,
     threshold : ThresholdFields]
NoDetectBody == [filepath |-> <<>>, min_scene_length |-> Undefined,
                 threshold |-> Undefined]

DetectRouteInit ==
    detectRoute = [pc |-> "idle", body |-> NoDetectBody, status |-> 0, error |-> ""]

\* timestamp of a /preview request, in thousandths of a second, and the
\* durations ffprobe reports for the file
TimestampFields ==
    {Undefined, NotANumber, Num(-500), Num(0), Num(1500), Num(2000), Text(700)}
PreviewRequests == [filepath : RequestPaths, timestamp : TimestampFields]
PreviewDurations == {0, 2000}
NoPreviewRequest == [filepath |-> <<>>, timestamp |-> Undefined]

\* timestamp is safeTimestamp, in thousandths of a second
PreviewInit ==
    preview = [pc |-> "idle", request |-> NoPreviewRequest, timestamp |-> 0,
               status |-> 0, error |-> ""]

\* the path of a generated thumbnail, in the upload folder
PreviewFile == <<"/", "w", "/", "u", "/", "p">>

\* req.body.target_fps of an upload
TargetFpsFields == {Undefined, NotANumber, Num(0), Num(16), Num(24), Num(25),
                    Num(30), Num(60)}
validFps == {16, 24, 25, 30}

\* tempPath is null (<<>>) or the path multer stored the upload under; stored
\* tells whether multer stored a file, unlinks counts the calls of
\* fs.unlinkSync(tempPath), failedAt names the
\* step that ended the request early
UploadInit ==
    upload = [pc |-> "idle", tempPath |-> <<>>, stored |-> FALSE,
              unlinks |-> 0, targetFps |-> 0, status |-> 0, error |-> "",
              failedAt |-> ""]

(***************************************************************************)
(* The source file and ffmpeg.getVideoInfo (services/ffmpeg.js)            *)
(***************************************************************************)
\* scene scores of the sampled frames, in hundredths
ScoreLevels == {10, 50}
VideoFpsValues == {25, 30}

\* offset of the sampled frames from the tick grid, in milliseconds: none, or
\* one frame period of a 30 fps stream
PtsPhases == {Rat(0, 1), Rat(100, 3)}

\* a file of n ticks: the frames at pts = i * TimeStep + phase for 0 < i < n
\* carry a score
Videos ==
    UNION {[duration : {n * TimeStep}, fps : VideoFpsValues,
            signal : [1..Max(n - 1, 0) -> ScoreLevels],
            phase : IF n >= 2 THEN PtsPhases ELSE {Rat(0, 1)}] : n \in 0..MaxTicks}

\* ffprobe succeeded: duration, fps and total_frames = Math.round(duration * fps)
getVideoInfo(file) ==
    [duration |-> file.duration, fps |-> file.fps,
     total_frames |-> MathRound(Rat(file.duration * file.fps, 1000))]

\* (seconds).toFixed(3), in milliseconds, for a non-negative time
ToFixed3(ms) == MathRound(ms)

(***************************************************************************)
(* detectScenes (services/sceneDetector.js)                                *)
(***************************************************************************)
\* options.minSceneLength is given in thousandths of a second
MinSceneLengthOptions ==
    {Undefined, Num(-1000), Num(0), Num(200), Num(550), Num(300000), Num(450000),
     Num(2400000)}
FpsOptions == {Undefined, Num(24), Num(30)}
ThresholdOptions == {Undefined, Num(50)}
OptionSets ==
    [fps : FpsOptions, minSceneLength : MinSceneLengthOptions,
     threshold : ThresholdOptions]

\* the default used whether or not the option is given
OrDefault_Ignored(x, fallback) == fallback

\* x || fallback for a numeric option
OrDefault(x, fallback) == IF IsNumber(x) /\ x.v # 0 THEN x.v ELSE fallback

\* the normalization without the clamp to [0.5, 60]
NormalizeMinSceneLength_NoClamp(opt, fps) ==
    LET given == IF IsNumber(opt) /\ opt.v # 0
                 THEN Rat(opt.v, 1000) ELSE FromInt(DEFAULT_MIN_SCENE_LENGTH)
    IN  IF RLt(FromInt(300), given) THEN RDiv(given, FromInt(fps)) ELSE given

\* lines 20-28: seconds, as a rational
NormalizeMinSceneLength(opt, fps) ==
    LET given == IF IsNumber(opt) /\ opt.v # 0
                 THEN Rat(opt.v, 1000) ELSE FromInt(DEFAULT_MIN_SCENE_LENGTH)
        sec == IF RLt(FromInt(300), given) THEN RDiv(given, FromInt(fps)) ELSE given
    IN  RMax(Rat(1, 2), RMin(FromInt(60), sec))

NoLocals == [fps |-> 0, minSceneLengthSec |-> FromInt(0), threshold |-> 0]

\* a scene as returned to the caller; times in milliseconds
Scene(n, sf, ef, st, et, d) ==
    [scene_number |-> n, start_frame |-> sf, end_frame |-> ef,
     start_time |-> st, end_time |-> et, duration |-> d]

\* what the primary script may print on stdout: text that is not JSON, an
\* object with an error field, an object without a scenes field, or an object
\* with a scenes list.  The lists are those a content detector that counts
\* and numbers frames and scenes itself can print for the file: one scene, a
\* split in two, one scene running a frame past total_frames, and the split
\* in two printed last scene first under the numbers of the scenes.
PrimarySceneLists(file) ==
    LET info == getVideoInfo(file)
        t == info.total_frames
        h == t \div 2
        hms == MathRound(Rat(h * 1000, info.fps))
    IN  {<<Scene(1, 0, t + 1, 0, info.duration + TimeStep, info.duration + TimeStep)>>}
        \cup (IF t >= 1
              THEN {<<Scene(1, 1, t, 0, info.duration, info.duration)>>} ELSE {})
        \cup (IF t >= 2
              THEN {<<Scene(1, 1, h, 0, hms, hms),
                      Scene(2, h + 1, t, hms, info.duration, info.duration - hms)>>,
                    <<Scene(2, h + 1, t, hms, info.duration, info.duration - hms),
                      Scene(1, 1, h, 0, hms, hms)>>}
              ELSE {})

Payload(kind, scenes) == [kind |-> kind, scenes |-> scenes]
PrimaryPayloads(file) ==
    {Payload("garbage", <<>>), Payload("error", <<>>), Payload("noscenes", <<>>)}
        \cup {Payload("scenes", l) : l \in PrimarySceneLists(file)}

Event(type, code, chunk) == [type |-> type, code |-> code, chunk |-> chunk]
NoChunk == Payload("none", <<>>)
CloseEvent(code) == Event("close", code, NoChunk)
ErrorEvent == Event("error", 0, NoChunk)
DataEvent(chunk) == Event("data", 0, chunk)
StderrEvent == Event("stderr", 0, NoChunk)

\* what the spawned process delivers, in order: a spawn failure emits 'error'
\* and then 'close' with a negative code; a process that ran emits its output
\* and 'close' with its exit code; a process that hangs emits no 'close'
PrimaryScripts(file) ==
    {<<ErrorEvent, CloseEvent(-2)>>}
        \cup {<<CloseEvent(1)>>, <<StderrEvent, CloseEvent(1)>>}
        \cup {<<DataEvent(Payload("scenes", l)), CloseEvent(1)>> :
                  l \in PrimarySceneLists(file)}
        \cup {<<CloseEvent(0)>>}
        \cup {<<DataEvent(c), CloseEvent(0)>> : c \in PrimaryPayloads(file)}
        \cup {<<>>, <<StderrEvent>>}

Pending == [state |-> "pending", by |-> "none", value |-> <<>>, reason |-> ""]
\* resolve and reject settle a promise only the first time; reason is the
\* message of the error it was rejected with
Resolve(p, value, by) ==
    IF p.state = "pending"
    THEN [state |-> "resolved", by |-> by, value |-> value, reason |-> ""]
    ELSE p
Reject(p, by, reason) ==
    IF p.state = "pending"
    THEN [state |-> "rejected", by |-> by, value |-> <<>>, reason |-> reason]
    ELSE p

DetectInit ==
    /\ video \in Videos
    /\ pc = "idle"
    /\ options = [fps |-> Undefined, minSceneLength |-> Undefined, threshold |-> Undefined]
    /\ locals = NoLocals
    /\ events = <<>>
    /\ output = <<>>
    /\ errorOutput = <<>>
    /\ log = {}
    /\ fallbacks = <<>>
    /\ promise = Pending

\* lines 15-16 for the options object o: the call starts the probe and
\* returns its promise at the await
detectScenesCall(o) ==
    /\ pc = "idle"
    /\ pc' = "probing"
    /\ options' = o
    /\ UNCHANGED <<locals, events, output, errorOutput, log, fallbacks, promise>>

\* a direct call of detectScenes
detectScenes ==
    /\ \E o \in OptionSets : detectScenesCall(o)
    /\ UNCHANGED <<video, rangeVars>>

\* the caller assigns to the fields of its options object while the probe
\* is in flight
OptionsChanged ==
    /\ pc = "probing"
    /\ \E o \in OptionSets : o # options /\ options' = o
    /\ UNCHANGED <<video, pc, locals, events, output, errorOutput, log, fallbacks,
                   promise, rangeVars>>

\* lines 16-45 once the probe has answered, with the process events the
\* spawned process will deliver: a failed probe rejects; otherwise the
\* options are read as they are now, normalized, and the primary is spawned
ProbeAnswered(scripts) ==
    /\ pc = "probing"
    /\ pc' = "called"
    /\ \E answer \in ProbeAnswers :
        IF answer # "ok"
        THEN /\ promise' = Reject(promise, "probe", answer)
             /\ UNCHANGED <<locals, events>>
        ELSE LET videoInfo == getVideoInfo(video)
                 fps == OrDefault(options.fps, videoInfo.fps)
             IN  /\ locals' = [fps |-> fps,
                               minSceneLengthSec |->
                                   NormalizeMinSceneLength(options.minSceneLength, fps),
                               threshold |-> OrDefault(options.threshold,
                                                       DEFAULT_THRESHOLD)]
                 /\ events' \in scripts
                 /\ UNCHANGED promise
    /\ UNCHANGED <<video, options, output, errorOutput, log, fallbacks, rangeVars>>

DetectProbed == ProbeAnswered(PrimaryScripts(video))


(***************************************************************************)
(* The fallback detector: fallbackDetectScenes (sceneDetector.js) around   *)
(* detectScenesFFmpeg (ffmpeg.js)                                          *)
(***************************************************************************)
\* the threshold fallbackDetectScenes hands to ffmpeg's select filter, in hundredths
FallbackThreshold == 30

RawScene(sf, ef, st, et) ==
    [start_frame |-> sf, end_frame |-> ef, start_time |-> st, end_time |-> et]

\* fallbackDetectScenes with Math.floor in place of Math.round
fallbackDetectScenes_Floor(minSceneLengthSec, fps) ==
    [pc |-> "streaming", cursor |-> 0, scenes |-> <<>>, lastSceneFrame |-> 1,
     threshold |-> FallbackThreshold,
     minSceneLength |-> (minSceneLengthSec[1] * fps) \div minSceneLengthSec[2],
     fps |-> fps]

\* fallbackDetectScenes(inputPath, minSceneLengthSec, fps), up to the start of
\* the ffmpeg run of detectScenesFFmpeg(inputPath, 0.3, minSceneLengthFrames, fps)
fallbackDetectScenes(minSceneLengthSec, fps) ==
    [pc |-> "streaming", cursor |-> 0, scenes |-> <<>>, lastSceneFrame |-> 1,
     threshold |-> FallbackThreshold,
     minSceneLength |-> MathRound(RMul(minSceneLengthSec, FromInt(fps))),
     fps |-> fps]

InvokeFallback == Append(fallbacks, fallbackDetectScenes(locals.minSceneLengthSec, locals.fps))

\* the ticks after the cursor whose frame passes select='gt(scene,threshold)'
SelectedAfter(fb) ==
    {i \in DOMAIN video.signal : i > fb.cursor /\ video.signal[i] > fb.threshold}
NextSelected(fb) == CHOOSE i \in SelectedAfter(fb) : \A j \in SelectedAfter(fb) : i <= j

\* the stderr handler with > in place of >= in the length test
StderrLine_Strict(fb, tick) ==
    LET ptsTime == RAdd(FromInt(tick * TimeStep), video.phase)
        frameNum == MathRound(RMul(ptsTime, Rat(fb.fps, 1000)))
    IN  IF frameNum - fb.lastSceneFrame > fb.minSceneLength
        THEN [fb EXCEPT !.cursor = tick,
                        !.scenes = Append(@, RawScene(fb.lastSceneFrame, frameNum,
                                             Rat((fb.lastSceneFrame - 1) * 1000, fb.fps),
                                             ptsTime)),
                        !.lastSceneFrame = frameNum + 1]
        ELSE [fb EXCEPT !.cursor = tick]

\* pts_time of the showinfo line of a tick, in milliseconds
PtsTime(tick) == RAdd(FromInt(tick * TimeStep), video.phase)

\* lines 174-192 of ffmpeg.js: one showinfo line
StderrLine(fb, tick) ==
    LET ptsTime == PtsTime(tick)
        frameNum == MathRound(RMul(ptsTime, Rat(fb.fps, 1000)))
    IN  IF frameNum - fb.lastSceneFrame >= fb.minSceneLength
        THEN [fb EXCEPT !.cursor = tick,
                        !.scenes = Append(@, RawScene(fb.lastSceneFrame, frameNum,
                                             Rat((fb.lastSceneFrame - 1) * 1000, fb.fps),
                                             ptsTime)),
                        !.lastSceneFrame = frameNum + 1]
        ELSE [fb EXCEPT !.cursor = tick]

\* lines 193-205 of ffmpeg.js: the final scene, then resolve(scenes)
EndOfStream(fb, info) ==
    IF 2 * (info.total_frames - fb.lastSceneFrame) >= fb.minSceneLength
           \/ Len(fb.scenes) = 0
    THEN [fb EXCEPT !.pc = "detected",
                    !.scenes = Append(@, RawScene(fb.lastSceneFrame, info.total_frames,
                                         Rat((fb.lastSceneFrame - 1) * 1000, fb.fps),
                                         FromInt(info.duration)))]
    ELSE [fb EXCEPT !.pc = "detected"]

\* lines 110-117 of sceneDetector.js (Math.round leaves the integer frame
\* numbers of detectScenesFFmpeg unchanged)
CleanScene(scene, index, videoInfo) ==
    Scene(index,
          Max(1, scene.start_frame),
          Min(videoInfo.total_frames, scene.end_frame),
          Max(0, ToFixed3(scene.start_time)),
          Min(videoInfo.duration, ToFixed3(scene.end_time)),
          ToFixed3(RSub(scene.end_time, scene.start_time)))

CleanScenes(scenes, videoInfo) ==
    [i \in 1..Len(scenes) |-> CleanScene(scenes[i], i, videoInfo)]


(***************************************************************************)
(* Handlers of the primary process (sceneDetector.js, lines 47-94)         *)
(***************************************************************************)
Delivering(type) == pc = "called" /\ Len(events) > 0 /\ Head(events).type = type

\* a document without a scenes field counted as unparseable
Parses_ScenesRequired(out) == Len(out) = 1 /\ out[1].kind = "scenes"

\* JSON.parse(output) succeeds when stdout is one well-formed document
Parses(out) == Len(out) = 1 /\ out[1].kind \in {"error", "noscenes", "scenes"}

\* pythonProcess.stdout.on('data')
PrimaryStdout ==
    /\ Delivering("data")
    /\ output' = Append(output, Head(events).chunk)
    /\ events' = Tail(events)
    /\ UNCHANGED <<video, pc, options, locals, errorOutput, log, fallbacks, promise,
                   rangeVars>>

\* pythonProcess.stderr.on('data')
PrimaryStderr ==
    /\ Delivering("stderr")
    /\ errorOutput' = Append(errorOutput, "diagnostic")
    /\ events' = Tail(events)
    /\ UNCHANGED <<video, pc, options, locals, output, log, fallbacks, promise,
                   rangeVars>>

\* pythonProcess.on('close')
PrimaryClose ==
    /\ Delivering("close")
    /\ events' = Tail(events)
    /\ IF Head(events).code # 0
       THEN /\ log' = log \cup {"Python scene detection error"}
            /\ fallbacks' = InvokeFallback
            /\ UNCHANGED promise
       ELSE IF ~Parses(output)
       THEN /\ log' = log \cup {"Failed to parse Python output"}
            /\ fallbacks' = InvokeFallback
            /\ UNCHANGED promise
       ELSE IF output[1].kind = "error"
       THEN /\ log' = log \cup {"Scene detection error"}
            /\ fallbacks' = InvokeFallback
            /\ UNCHANGED promise
       ELSE /\ promise' = Resolve(promise,
                                  IF output[1].kind = "scenes"
                                  THEN output[1].scenes ELSE <<>>,
                                  "primary")
            /\ UNCHANGED <<log, fallbacks>>
    /\ UNCHANGED <<video, pc, options, locals, output, errorOutput, rangeVars>>

\* pythonProcess.on('error')
PrimaryError ==
    /\ Delivering("error")
    /\ events' = Tail(events)
    /\ log' = log \cup {"Failed to start Python process"}
    /\ fallbacks' = InvokeFallback
    /\ UNCHANGED <<video, pc, options, locals, output, errorOutput, promise, rangeVars>>

(***************************************************************************)
(* Steps of one fallback invocation                                        *)
(***************************************************************************)
FallbackFrame == <<video, pc, options, locals, events, output, errorOutput, log,
                   rangeVars>>

\* ffmpeg's 'stderr' event for the next selected frame
FallbackStderr(i) ==
    /\ fallbacks[i].pc = "streaming"
    /\ SelectedAfter(fallbacks[i]) # {}
    /\ fallbacks' = [fallbacks EXCEPT
                        ![i] = StderrLine(fallbacks[i], NextSelected(fallbacks[i]))]
    /\ UNCHANGED <<promise, FallbackFrame>>

\* ffmpeg's 'end' event: the handler starts a probe and returns at its await
FallbackEnd(i) ==
    /\ fallbacks[i].pc = "streaming"
    /\ SelectedAfter(fallbacks[i]) = {}
    /\ fallbacks' = [fallbacks EXCEPT ![i].pc = "ending"]
    /\ UNCHANGED <<promise, FallbackFrame>>

\* the probe of the 'end' handler answers: add the final scene and resolve
\* detectScenesFFmpeg; a failed probe rejects it, and with it
\* fallbackDetectScenes
FallbackEndProbed(i) ==
    /\ fallbacks[i].pc = "ending"
    /\ \E answer \in ProbeAnswers :
        IF answer = "ok"
        THEN /\ fallbacks' = [fallbacks EXCEPT
                                 ![i] = EndOfStream(fallbacks[i], getVideoInfo(video))]
             /\ UNCHANGED promise
        ELSE /\ fallbacks' = [fallbacks EXCEPT ![i].pc = "failed"]
             /\ promise' = Reject(promise, "fallback", answer)
    /\ UNCHANGED FallbackFrame

\* ffmpeg's 'error' event
FallbackError(i) ==
    /\ fallbacks[i].pc = "streaming"
    /\ fallbacks' = [fallbacks EXCEPT ![i].pc = "failed"]
    /\ \E error \in SceneDetectionErrors : promise' = Reject(promise, "fallback", error)
    /\ UNCHANGED FallbackFrame

\* line 107 of sceneDetector.js: with the raw scenes at hand,
\* fallbackDetectScenes starts a second probe and waits for it
FallbackProbe(i) ==
    /\ fallbacks[i].pc = "detected"
    /\ fallbacks' = [fallbacks EXCEPT ![i].pc = "probing"]
    /\ UNCHANGED <<promise, FallbackFrame>>

\* lines 107-117 of sceneDetector.js: the second probe answers; clean the
\* scenes up and settle the promise of detectScenes through
\* .then(resolve).catch(reject)
FallbackReturn(i) ==
    /\ fallbacks[i].pc = "probing"
    /\ \E answer \in ProbeAnswers :
        IF answer = "ok"
        THEN /\ fallbacks' = [fallbacks EXCEPT ![i].pc = "returned"]
             /\ promise' = Resolve(promise,
                                   CleanScenes(fallbacks[i].scenes, getVideoInfo(video)),
                                   "fallback")
        ELSE /\ fallbacks' = [fallbacks EXCEPT ![i].pc = "failed"]
             /\ promise' = Reject(promise, "fallback", answer)
    /\ UNCHANGED FallbackFrame

FallbackIds == 1..Len(fallbacks)

(***************************************************************************)
(* POST /detect-scenes (routes/scenes.js)                                  *)
(***************************************************************************)
\* the bound test isNaN(v) || v < lo || v > hi, without the NaN part
OutOfRange_NaNPasses(x, lo, hi) == IsNumber(x) /\ (x.v < lo \/ x.v > hi)

\* the bound test without its upper bound
OutOfRange_NoUpperBound(x, lo, hi) == ~IsNumber(x) \/ x.v < lo

\* isNaN(v) || v < lo || v > hi
OutOfRange(x, lo, hi) == ~IsNumber(x) \/ x.v < lo \/ x.v > hi

DetectRespond(body, status, error) ==
    detectRoute' = [pc |-> "responded", body |-> body, status |-> status,
                    error |-> error]

\* lines 15-31: the handler up to its first response or to the call of
\* getVideoInfo
DetectScenesRequest ==
    /\ detectRoute.pc = "idle"
    /\ \E body \in DetectBodies :
        IF body.filepath = <<>>
        THEN DetectRespond(body, 400, "filepath is required")
        ELSE IF ~isPathSafe(body.filepath, UPLOAD_FOLDER)
        THEN DetectRespond(body, 403, "Invalid file path")
        ELSE IF ~fileExists(body.filepath)
        THEN DetectRespond(body, 404, "Video file not found")
        ELSE detectRoute' = [pc |-> "probing", body |-> body, status |-> 0,
                             error |-> ""]
    /\ UNCHANGED <<detVars, calc, validation, extract, peer, upload, disk, preview>>

\* lines 31-58: getVideoInfo answered; the handler goes on to its next
\* response or to the call of detectScenes
DetectScenesProbed ==
    /\ detectRoute.pc = "probing"
    /\ pc = "idle"
    /\ \E answer \in ProbeAnswers :
        LET body == detectRoute.body
            minSceneLength == IF body.min_scene_length # Undefined
                              THEN ParseFloat(body.min_scene_length) ELSE Undefined
            thresholdValue == IF body.threshold # Undefined
                              THEN ParseFloat(body.threshold) ELSE Undefined
            videoInfo == getVideoInfo(video)
        IN  IF answer # "ok"
            THEN DetectRespond(body, 500, answer) /\ UNCHANGED detVars
            ELSE IF body.min_scene_length # Undefined
                        /\ OutOfRange(minSceneLength, 100, 300000)
            THEN DetectRespond(body, 400,
                     "min_scene_length must be between 0.1 and 300 seconds")
                     /\ UNCHANGED detVars
            ELSE IF body.threshold # Undefined /\ OutOfRange(thresholdValue, 1, 100)
            THEN DetectRespond(body, 400, "threshold must be between 1 and 100")
                     /\ UNCHANGED detVars
            ELSE /\ detectRoute' = [pc |-> "detecting", body |-> body, status |-> 0,
                                    error |-> ""]
                 /\ detectScenesCall([minSceneLength |-> minSceneLength,
                                      threshold |-> thresholdValue,
                                      fps |-> Num(videoInfo.fps)])
                 /\ UNCHANGED video
    /\ UNCHANGED <<calc, validation, extract, peer, upload, disk, preview>>

\* await detectScenes settled: res.json({ scenes }), or the catch block
\* with the message detectScenes was rejected with
DetectScenesRespond ==
    /\ detectRoute.pc = "detecting"
    /\ promise.state # "pending"
    /\ detectRoute' = [detectRoute EXCEPT
                           !.pc = "responded",
                           !.status = IF promise.state = "resolved" THEN 200 ELSE 500,
                           !.error = promise.reason]
    /\ UNCHANGED <<detVars, calc, validation, extract, peer, upload, disk, preview>>

(***************************************************************************)
(* POST /upload (routes/upload.js)                                         *)
(***************************************************************************)
\* a catch block that unlinks the temporary path whatever its state
CleanupNeeded_Always(tempPath, files) == TRUE

\* the catch block's test: tempPath && fs.existsSync(tempPath)
CleanupNeeded(tempPath, files) == tempPath # <<>> /\ ExistsSync(tempPath, files)

\* the catch block, entered with the request as u, the message of the error
\* caught and the disk holding files: remove the temporary file if it is
\* still there, answer 500 with the message
UploadCatch(u, step, error, files) ==
    LET cleanup == CleanupNeeded(u.tempPath, files)
    IN  /\ upload' = [u EXCEPT !.pc = "responded", !.status = 500, !.error = error,
                               !.failedAt = step,
                               !.unlinks = IF cleanup THEN @ + 1 ELSE @]
        /\ disk' = IF cleanup THEN files \ {TempFile} ELSE files

\* the message fs.unlinkSync throws with for a file that is not there
ErrNoEntry(filepath) ==
    "ENOENT: no such file or directory, unlink '" \o PathText(filepath) \o "'"

\* String.prototype.includes
Includes(text, part) ==
    \E i \in 1..(Len(text) - Len(part) + 1) : SubSeq(text, i, i + Len(part) - 1) = part

\* the message of the fileFilter's error: the allowed extensions joined by ', '
ErrInvalidFileType == "Invalid file type. Allowed: mp4, avi, mov, mkv, webm"

\* the errors upload.single('file') hands to next(err), each before a file
\* is on disk or with the file removed again: the file is over
\* limits.fileSize, the fileFilter refuses its extension, the file comes in
\* a field other than 'file', the storage cannot open the file it is to
\* write, and an error that carries no message
UploadErrors ==
    {[file |-> "refused", code |-> "LIMIT_FILE_SIZE", message |-> "File too large"],
     [file |-> "refused", code |-> "", message |-> ErrInvalidFileType],
     [file |-> "refused", code |-> "LIMIT_UNEXPECTED_FILE", message |-> "Unexpected field"],
     [file |-> "refused", code |-> "EACCES",
      message |-> "EACCES: permission denied, open '" \o PathText(TempFile) \o "'"],
     [file |-> "refused", code |-> "", message |-> ""]}

\* what upload.single('file') does with the request: it carries no file, or
\* its file is stored, or an error is handed on
UploadOutcomes ==
    {[file |-> "none", code |-> "", message |-> ""],
     [file |-> "stored", code |-> "", message |-> ""]} \cup UploadErrors

\* the error handling middleware of the server: status and body of the answer
ErrorMiddleware(err) ==
    IF err.code = "LIMIT_FILE_SIZE"
    THEN [status |-> 413, error |-> "File too large (max 500MB)"]
    ELSE IF err.message # "" /\ Includes(err.message, "Invalid file type")
    THEN [status |-> 400, error |-> err.message]
    ELSE [status |-> 500,
          error |-> IF err.message # "" THEN err.message ELSE "Internal server error"]

\* upload.single('file'): the middleware that runs before the handler; an
\* error is answered by the error middleware and the handler never runs
UploadReceive ==
    /\ upload.pc = "idle"
    /\ \E outcome \in UploadOutcomes :
        IF outcome.file = "refused"
        THEN /\ upload' = [upload EXCEPT !.pc = "responded",
                                         !.status = ErrorMiddleware(outcome).status,
                                         !.error = ErrorMiddleware(outcome).error,
                                         !.failedAt = "multer"]
             /\ UNCHANGED disk
        ELSE IF outcome.file = "stored"
        THEN /\ upload' = [upload EXCEPT !.pc = "received", !.stored = TRUE]
             /\ disk' = disk \cup {TempFile}
        ELSE /\ upload' = [upload EXCEPT !.pc = "received"]
             /\ UNCHANGED disk
    /\ UNCHANGED <<detVars, calc, validation, extract, peer, detectRoute, preview>>

\* the handler up to its first response or to the call of reencodeVideo,
\* which starts with a probe of the temporary file
UploadRequest ==
    /\ upload.pc = "received"
    /\ \E field \in TargetFpsFields :
        LET parsed == ParseInt(field)
            targetFps == IF IsNumber(parsed) /\ parsed.v # 0 THEN parsed.v ELSE 24
            u == [upload EXCEPT !.tempPath = TempFile, !.targetFps = targetFps]
        IN  IF ~upload.stored
            THEN /\ upload' = [upload EXCEPT !.pc = "responded", !.status = 400,
                                             !.error = "No file uploaded",
                                             !.failedAt = "file"]
                 /\ UNCHANGED disk
            ELSE IF targetFps \notin validFps
            THEN IF fileExists(TempFile)
                 THEN /\ upload' = [u EXCEPT
                                        !.pc = "responded", !.status = 400,
                                        !.error = "Invalid target FPS. Must be one of: 16, 24, 25, 30",
                                        !.failedAt = "fps", !.unlinks = @ + 1]
                      /\ disk' = disk \ {TempFile}
                 ELSE UploadCatch([u EXCEPT !.unlinks = @ + 1], "unlink",
                                  ErrNoEntry(TempFile), disk)
            ELSE /\ upload' = [u EXCEPT !.pc = "reencoding"]
                 /\ UNCHANGED disk
    /\ UNCHANGED <<detVars, calc, validation, extract, peer, detectRoute, preview>>

\* reencodeVideo, once its probe of the temporary file has answered: ffmpeg
\* is started, or the rejection of the probe is passed on
ReencodeProbed ==
    /\ upload.pc = "reencoding"
    /\ \E answer \in ProbeAnswers :
        IF answer = "ok"
        THEN /\ upload' = [upload EXCEPT !.pc = "encoding"]
             /\ UNCHANGED disk
        ELSE UploadCatch(upload, "reencode", answer, disk)
    /\ UNCHANGED <<detVars, calc, validation, extract, peer, detectRoute, preview>>

\* reencodeVideo resolved: the re-encoded copy is on disk, the temporary
\* file is deleted and forgotten, and the file to work on is the copy, at
\* the target frame rate; if the temporary file is gone, unlinkSync throws
\* and the catch block answers
ReencodeEnd ==
    /\ upload.pc = "encoding"
    /\ IF fileExists(upload.tempPath)
       THEN /\ upload' = [upload EXCEPT !.pc = "probing", !.tempPath = <<>>,
                                        !.unlinks = @ + 1]
            /\ disk' = (disk \ {TempFile}) \cup {OutputFile}
            /\ video' = [video EXCEPT !.fps = upload.targetFps]
       ELSE /\ UploadCatch([upload EXCEPT !.unlinks = @ + 1], "unlink",
                           ErrNoEntry(upload.tempPath), disk \cup {OutputFile})
            /\ UNCHANGED video
    /\ UNCHANGED <<pc, options, locals, events, output, errorOutput, log, fallbacks,
                   promise, calc, validation, extract, peer, detectRoute, preview>>

\* ffmpeg's 'error' event during the re-encoding, with or without a partial
\* copy left on disk
ReencodeError ==
    /\ upload.pc = "encoding"
    /\ \E error \in ReencodingErrors, written \in SUBSET {OutputFile} :
           UploadCatch(upload, "reencode", error, disk \cup written)
    /\ UNCHANGED <<detVars, calc, validation, extract, peer, detectRoute, preview>>

\* getVideoInfo(outputPath), then the call of detectScenes with the target fps
UploadProbe ==
    /\ upload.pc = "probing"
    /\ \E answer \in ProbeAnswers :
        IF answer # "ok"
        THEN /\ UploadCatch(upload, "probe", answer, disk)
             /\ UNCHANGED detVars
        ELSE /\ upload' = [upload EXCEPT !.pc = "detecting"]
             /\ detectScenesCall([fps |-> Num(upload.targetFps),
                                  minSceneLength |-> Undefined,
                                  threshold |-> Undefined])
             /\ UNCHANGED <<video, disk>>
    /\ UNCHANGED <<calc, validation, extract, peer, detectRoute, preview>>

\* await detectScenes settled: res.json, or the catch block with the message
\* detectScenes was rejected with
UploadRespond ==
    /\ upload.pc = "detecting"
    /\ promise.state # "pending"
    /\ IF promise.state = "resolved"
       THEN /\ upload' = [upload EXCEPT !.pc = "responded", !.status = 200]
            /\ UNCHANGED disk
       ELSE UploadCatch(upload, "detect", promise.reason, disk)
    /\ UNCHANGED <<detVars, calc, validation, extract, peer, detectRoute, preview>>

(***************************************************************************)
(* GET /preview and POST /preview (routes/preview.js)                      *)
(***************************************************************************)
PreviewRespond(request, status, error) ==
    preview' = [pc |-> "responded", request |-> request, timestamp |-> 0,
                status |-> status, error |-> error]

\* the handler up to its first response or to the call of getVideoInfo
PreviewRequest ==
    /\ preview.pc = "idle"
    /\ \E request \in PreviewRequests :
        IF request.filepath = <<>>
        THEN PreviewRespond(request, 400, "filepath is required")
        ELSE IF request.timestamp = Undefined
        THEN PreviewRespond(request, 400, "timestamp is required")
        ELSE IF ~IsNumber(ParseFloat(request.timestamp))
        THEN PreviewRespond(request, 400, "Invalid timestamp")
        ELSE IF ~isPathSafe(request.filepath, UPLOAD_FOLDER)
        THEN PreviewRespond(request, 403, "Invalid file path")
        ELSE IF ~fileExists(request.filepath)
        THEN PreviewRespond(request, 404, "Video file not found")
        ELSE preview' = [preview EXCEPT !.pc = "probing", !.request = request]
    /\ UNCHANGED <<detVars, calc, validation, extract, peer, detectRoute, upload, disk>>

\* getVideoInfo answered: the timestamp is brought into the file's duration
\* and generateThumbnail is called, or the catch block answers
PreviewProbed ==
    /\ preview.pc = "probing"
    /\ \E answer \in ProbeAnswers, duration \in PreviewDurations :
        LET timeValue == ParseFloat(preview.request.timestamp).v
        IN  IF answer # "ok"
            THEN PreviewRespond(preview.request, 500, answer)
            ELSE preview' = [preview EXCEPT
                                 !.pc = "generating",
                                 !.timestamp = Max(0, Min(timeValue, duration - 1))]
    /\ UNCHANGED <<detVars, calc, validation, extract, peer, detectRoute, upload, disk>>

\* generateThumbnail resolved: the thumbnail is in the upload folder
ThumbnailEnd ==
    /\ preview.pc = "generating"
    /\ preview' = [preview EXCEPT !.pc = "responded", !.status = 200]
    /\ disk' = disk \cup {PreviewFile}
    /\ UNCHANGED <<detVars, calc, validation, extract, peer, detectRoute, upload>>

\* generateThumbnail rejected, with or without a partial file left in the
\* upload folder: the catch block answers 500
ThumbnailError ==
    /\ preview.pc = "generating"
    /\ \E error \in ThumbnailErrors, written \in SUBSET {PreviewFile} :
        /\ preview' = [preview EXCEPT !.pc = "responded", !.status = 500,
                                      !.error = error]
        /\ disk' = disk \cup written
    /\ UNCHANGED <<detVars, calc, validation, extract, peer, detectRoute, upload>>

(***************************************************************************)
(* Concurrent detectScenes calls on one file.  The variables pc .. promise *)
(* are those of the call whose handler the event loop runs; the variables  *)
(* of the other call wait in peer.saved.  output, errorOutput, the promise *)
(* (sceneDetector.js, lines 35-45) and scenes, lastSceneFrame (ffmpeg.js,  *)
(* lines 166-168) are declared inside the call.                            *)
(***************************************************************************)
NoOptions == [fps |-> Undefined, minSceneLength |-> Undefined, threshold |-> Undefined]
NoCall ==
    [pc |-> "idle", options |-> NoOptions, locals |-> NoLocals, events |-> <<>>,
     output |-> <<>>, errorOutput |-> <<>>, log |-> {}, fallbacks |-> <<>>,
     promise |-> Pending]
CallState ==
    [pc |-> pc, options |-> options, locals |-> locals, events |-> events,
     output |-> output, errorOutput |-> errorOutput, log |-> log,
     fallbacks |-> fallbacks, promise |-> promise]

NoPeer == [current |-> 1, requests |-> <<>>, saved |-> NoCall]
PeerIdle == peer = NoPeer

\* output and errorOutput declared at module level: one pair for all calls
ClosureOf_SharedOutput(own, running) ==
    [own EXCEPT !.output = running.output, !.errorOutput = running.errorOutput]

\* the variables the handlers of a call see: those of its own call
ClosureOf(own, running) == own

\* two requests for the longest file, with a scene change at every tick
ConcurrentVideos ==
    {v \in Videos : /\ v.duration = MaxTicks * TimeStep
                    /\ v.fps = 30
                    /\ v.phase = Rat(0, 1)
                    /\ \A t \in DOMAIN v.signal : v.signal[t] = 50}
ConcurrentOptions ==
    {NoOptions, [fps |-> Num(24), minSceneLength |-> Num(200), threshold |-> Num(50)]}
ConcurrentScripts(file) ==
    {<<ErrorEvent, CloseEvent(-2)>>,
     <<StderrEvent, CloseEvent(1)>>,
     <<DataEvent(Payload("garbage", <<>>)), CloseEvent(0)>>}
        \cup {<<DataEvent(Payload("scenes", l)), CloseEvent(0)>> :
                  l \in {x \in PrimarySceneLists(file) : Len(x) = 2}}
ConcurrentRequests(file) == [options : ConcurrentOptions, script : ConcurrentScripts(file)]

ConcurrentInit ==
    /\ video \in ConcurrentVideos
    /\ pc = "idle"
    /\ options = NoOptions
    /\ locals = NoLocals
    /\ events = <<>>
    /\ output = <<>>
    /\ errorOutput = <<>>
    /\ log = {}
    /\ fallbacks = <<>>
    /\ promise = Pending
    /\ CalcInit /\ ValidationInit /\ ExtractInit /\ DetectRouteInit /\ UploadInit
    /\ DiskInit /\ PreviewInit
    /\ peer \in {[current |-> 1, requests |-> <<r1, r2>>, saved |-> NoCall] :
                     r1 \in ConcurrentRequests(video), r2 \in ConcurrentRequests(video)}

\* detectScenes for the request of the running call
ConcurrentDetect ==
    /\ detectScenesCall(peer.requests[peer.current].options)
    /\ UNCHANGED <<video, rangeVars>>

\* the probe of the running call answers
ConcurrentProbed == ProbeAnswered({peer.requests[peer.current].script})

\* the event loop turns from the handlers of one call to those of the other
SwitchCall ==
    /\ peer' = [peer EXCEPT !.current = 3 - @, !.saved = CallState]
    /\ LET call == ClosureOf(peer.saved, CallState)
       IN  /\ pc' = call.pc
           /\ options' = call.options
           /\ locals' = call.locals
           /\ events' = call.events
           /\ output' = call.output
           /\ errorOutput' = call.errorOutput
           /\ log' = call.log
           /\ fallbacks' = call.fallbacks
           /\ promise' = call.promise
    /\ UNCHANGED <<video, calc, validation, extract, detectRoute, upload, disk, preview>>

(***************************************************************************)
(* Specifications                                                          *)
(***************************************************************************)
vars == <<detVars, rangeVars>>

RangeIdle ==
    /\ CalcInit /\ ValidationInit /\ ExtractInit /\ PeerIdle
    /\ DetectRouteInit /\ UploadInit /\ DiskInit /\ PreviewInit

DetectIdle ==
    /\ video = [duration |-> 0, fps |-> 30, signal |-> <<>>, phase |-> Rat(0, 1)]
    /\ pc = "idle"
    /\ options = [fps |-> Undefined, minSceneLength |-> Undefined, threshold |-> Undefined]
    /\ locals = NoLocals
    /\ events = <<>>
    /\ output = <<>>
    /\ errorOutput = <<>>
    /\ log = {}
    /\ fallbacks = <<>>
    /\ promise = Pending

\* one detectScenes call on one file
Init == DetectInit /\ RangeIdle
Next ==
    \/ detectScenes
    \/ OptionsChanged
    \/ DetectProbed
    \/ PrimaryStdout
    \/ PrimaryStderr
    \/ PrimaryClose
    \/ PrimaryError
    \/ \E i \in FallbackIds : FallbackStderr(i)
    \/ \E i \in FallbackIds : FallbackEnd(i)
    \/ \E i \in FallbackIds : FallbackEndProbed(i)
    \/ \E i \in FallbackIds : FallbackError(i)
    \/ \E i \in FallbackIds : FallbackProbe(i)
    \/ \E i \in FallbackIds : FallbackReturn(i)
Spec == Init /\ [][Next]_vars

\* the same under the scheduling the runtime guarantees: the event loop runs
\* every handler whose event has been delivered, and ffmpeg and ffprobe end
FairSpec == Spec /\ WF_vars(Next)

\* no detectScenes call is made
IdleInit == DetectIdle /\ RangeIdle

\* calls of calculateFrameRange
CalcSpec == IdleInit /\ [][CalculateFrameRangeCall]_vars

\* calls of validateFrameRange
ValidateSpec == IdleInit /\ [][ValidateFrameRangeCall]_vars

\* requests to /extract, with files deleted in between
\* arguments of deleteFile: the upload, the upload folder itself and the
\* sibling folder's file
DeletablePaths ==
    {<<"/", "w", "/", "u", "/", "x">>,
     <<"/", "w", "/", "u">>,
     <<"/", "w", "/", "u", "-", "o", "/", "x">>}

ExtractNext ==
    \/ ExtractRequest
    \/ ExtractProbed
    \/ ExtractSegmentEnd
    \/ ExtractSegmentError
    \/ \E filepath \in DeletablePaths : DeleteFile(filepath)
    \/ CleanupOldFiles(UPLOAD_FOLDER)
ExtractSpec == IdleInit /\ [][ExtractNext]_vars

\* requests to /preview, with files deleted in between
PreviewNext ==
    \/ PreviewRequest
    \/ PreviewProbed
    \/ ThumbnailEnd
    \/ ThumbnailError
    \/ \E filepath \in DeletablePaths \cup {PreviewFile} : DeleteFile(filepath)
    \/ CleanupOldFiles(UPLOAD_FOLDER)
PreviewSpec == IdleInit /\ [][PreviewNext]_vars

\* two detectScenes calls whose handlers interleave
ConcurrentNext ==
    \/ ConcurrentDetect
    \/ ConcurrentProbed
    \/ PrimaryStdout
    \/ PrimaryStderr
    \/ PrimaryClose
    \/ PrimaryError
    \/ \E i \in FallbackIds : FallbackStderr(i)
    \/ \E i \in FallbackIds : FallbackEnd(i)
    \/ \E i \in FallbackIds : FallbackEndProbed(i)
    \/ \E i \in FallbackIds : FallbackError(i)
    \/ \E i \in FallbackIds : FallbackProbe(i)
    \/ \E i \in FallbackIds : FallbackReturn(i)
    \/ SwitchCall
ConcurrentSpec == ConcurrentInit /\ [][ConcurrentNext]_vars

\* one request to /detect-scenes and the detection it starts
DetectRouteNext ==
    \/ DetectScenesRequest
    \/ DetectScenesProbed
    \/ DetectProbed
    \/ PrimaryStdout
    \/ PrimaryStderr
    \/ PrimaryClose
    \/ PrimaryError
    \/ \E i \in FallbackIds : FallbackStderr(i)
    \/ \E i \in FallbackIds : FallbackEnd(i)
    \/ \E i \in FallbackIds : FallbackEndProbed(i)
    \/ \E i \in FallbackIds : FallbackError(i)
    \/ \E i \in FallbackIds : FallbackProbe(i)
    \/ \E i \in FallbackIds : FallbackReturn(i)
    \/ DetectScenesRespond
DetectRouteSpec == Init /\ [][DetectRouteNext]_vars

\* one request to /upload and the detection it starts
UploadNext ==
    \/ UploadReceive
    \/ UploadRequest
    \/ ReencodeProbed
    \/ ReencodeEnd
    \/ ReencodeError
    \/ UploadProbe
    \/ DetectProbed
    \/ PrimaryStdout
    \/ PrimaryStderr
    \/ PrimaryClose
    \/ PrimaryError
    \/ \E i \in FallbackIds : FallbackStderr(i)
    \/ \E i \in FallbackIds : FallbackEnd(i)
    \/ \E i \in FallbackIds : FallbackEndProbed(i)
    \/ \E i \in FallbackIds : FallbackError(i)
    \/ \E i \in FallbackIds : FallbackProbe(i)
    \/ \E i \in FallbackIds : FallbackReturn(i)
    \/ UploadRespond
UploadSpec == Init /\ [][UploadNext]_vars

\* the same with the stored file deleted through the file manager while the
\* request is in progress
UploadDeletionNext == UploadNext \/ DeleteFile(TempFile)
UploadDeletionSpec == Init /\ [][UploadDeletionNext]_vars


(***************************************************************************)
(* Properties of detectScenes                                              *)
(***************************************************************************)
TotalFrames == getVideoInfo(video).total_frames
Resolved == promise.state = "resolved"
SomeFallbackFailed == \E i \in FallbackIds : fallbacks[i].pc = "failed"

\* scenes are contiguous and gapless over [1, total]
Covers(scenes, total) ==
    /\ Len(scenes) >= 1
    /\ scenes[1].start_frame = 1
    /\ \A i \in 1..(Len(scenes) - 1) : scenes[i + 1].start_frame = scenes[i].end_frame + 1
    /\ scenes[Len(scenes)].end_frame = total

\* C1: for a source with at least one frame, the list detectScenes resolves
\* with is never empty and covers [1, total_frames] without gaps or overlaps,
\* whichever detector produced it.
C1_ScenesCoverAllFrames ==
    (Resolved /\ TotalFrames >= 1) => Covers(promise.value, TotalFrames)

\* C2: in one detectScenes call the fallback detector is invoked exactly once
\* when the primary detector fails, and never more than once.
C2_FallbackInvokedOnce ==
    /\ Len(fallbacks) <= 1
    /\ (log # {} => Len(fallbacks) = 1)

\* C3: after any of the four primary failures (non-zero exit, unparseable
\* stdout, error field, spawn failure) the promise is not settled from the
\* primary output, and every fallback invocation gets
\* minSceneLengthFrames = round(normalized minSceneLength seconds * fps).
C3_PrimaryFailureFallsBack ==
    /\ log # {} =>
        /\ Len(fallbacks) >= 1
        /\ promise.by \in {"none", "fallback"}
    /\ \A i \in FallbackIds :
        /\ fallbacks[i].fps = locals.fps
        /\ fallbacks[i].minSceneLength
               = MathRound(Rat(locals.minSceneLengthSec[1] * locals.fps,
                               locals.minSceneLengthSec[2]))

\* stdout that is not JSON did not decide the result: the fallback did, with
\* 0.55 s at 30 fps rounded to 17 frames
C3_Witness ==
    /\ "Failed to parse Python output" \in log
    /\ Resolved /\ promise.by = "fallback"
    /\ options.minSceneLength = Num(550) /\ locals.fps = 30
    /\ fallbacks[1].minSceneLength = 17

\* C4: after a successful initial probe detectScenes rejects only if the
\* fallback failed, and a fallback failure always makes it reject.
C4_RejectsIffFallbackFails ==
    /\ (promise.state = "rejected" /\ promise.by # "probe") => SomeFallbackFailed
    /\ SomeFallbackFailed => promise.state = "rejected"

\* C5: a detectScenes call whose primary process was spawned eventually
\* settles, also when the process never emits 'close' or 'error'.
C5_DetectScenesSettles == (pc = "called") ~> (promise.state # "pending")

\* C6: for a source with at least one frame, every returned scene is within
\* the probed bounds, whichever detector produced it: start_frame >= 1,
\* end_frame <= total_frames, start_time >= 0, end_time <= duration.
C6_ReturnedScenesClamped ==
    (Resolved /\ TotalFrames >= 1) =>
        \A i \in 1..Len(promise.value) :
            /\ promise.value[i].start_frame >= 1
            /\ promise.value[i].end_frame <= TotalFrames
            /\ promise.value[i].start_time >= 0
            /\ promise.value[i].end_time <= video.duration

(***************************************************************************)
(* Properties of calculateFrameRange                                       *)
(***************************************************************************)
\* the reference computation of the range
C7_Reference(start, end, offset, length, totalFrames) ==
    LET s0 == start + offset
        e0 == IF IsNumber(length) /\ length.v > 0
              THEN s0 + length.v - 1
              ELSE s0 + (end - start)
        s1 == IF s0 < 1 THEN 1 ELSE s0
        e1 == IF e0 > totalFrames THEN totalFrames ELSE e0
    IN  <<s1, IF s1 > e1 THEN s1 ELSE e1>>

\* C7: calculateFrameRange returns the range of the reference computation;
\* ({100,340}, offset -50, no length) gives {50, 290} and
\* ({100,340}, offset 0, length 50) gives {100, 149}.
C7_MatchesReference ==
    calc.called =>
        /\ <<calc.result.start_frame, calc.result.end_frame>>
               = C7_Reference(calc.startFrame, calc.endFrame, calc.offset,
                              calc.length, calc.totalFrames)
        /\ (calc.startFrame = 100 /\ calc.endFrame = 340 /\ calc.totalFrames = 500) =>
               /\ (calc.offset = -50 /\ calc.length = Undefined) =>
                      (calc.result.start_frame = 50 /\ calc.result.end_frame = 290)
               /\ (calc.offset = 0 /\ calc.length = Num(50)) =>
                      (calc.result.start_frame = 100 /\ calc.result.end_frame = 149)

\* the first documented example has been computed
C7_Witness ==
    /\ calc.called
    /\ calc.startFrame = 100 /\ calc.endFrame = 340 /\ calc.offset = -50
    /\ calc.length = Undefined /\ calc.totalFrames = 500
    /\ calc.result.start_frame = 50 /\ calc.result.end_frame = 290

\* C8: for a scene inside the video, every range calculateFrameRange returns
\* has start_frame >= 1, end_frame <= totalFrames, start_frame <= end_frame
\* and frame_count = end_frame - start_frame + 1 >= 1, whatever the offset.
C8_RangeWithinBounds ==
    (calc.called /\ calc.endFrame <= calc.totalFrames) =>
        /\ calc.result.start_frame >= 1
        /\ calc.result.end_frame <= calc.totalFrames
        /\ calc.result.start_frame <= calc.result.end_frame
        /\ calc.result.frame_count = calc.result.end_frame - calc.result.start_frame + 1
        /\ calc.result.frame_count >= 1

(***************************************************************************)
(* Properties of /extract and validateFrameRange                           *)
(***************************************************************************)
ExtractionAttempted ==
    \/ extract.pc = "extracting"
    \/ extract.response.status = 200
    \/ extract.response.error \in ExtractionErrors

\* C9: extractSegment is invoked only for a range validateFrameRange accepted:
\* start >= 1, start <= end, end <= total_frames, 1 <= end - start + 1 <= 1000;
\* a range it rejected is answered with the whole error list and not extracted.
C9_ExtractionOnlyAfterValidation ==
    /\ ExtractionAttempted =>
        /\ extract.validation.valid
        /\ extract.startFrame >= 1
        /\ extract.startFrame <= extract.endFrame
        /\ extract.endFrame <= extract.totalFrames
        /\ extract.endFrame - extract.startFrame + 1 >= 1
        /\ extract.endFrame - extract.startFrame + 1 <= 1000
    /\ Len(extract.validation.errors) > 0 =>
        /\ ~ExtractionAttempted
        /\ extract.pc = "responded"
        /\ extract.response.status = 400
        /\ extract.response.errors
               = validateFrameRange(FromInt(extract.startFrame), FromInt(extract.endFrame),
                                    FromInt(extract.totalFrames)).errors

\* a range shifted by start_offset was validated and extracted
C9_Witness ==
    /\ extract.response.status = 200
    /\ extract.body.start_offset = Num(1)
    /\ extract.startFrame < extract.endFrame
    /\ extract.endFrame = extract.totalFrames

\* the rules of a valid range, on rationals <<n, d>> with d > 0
C10_PositiveInteger(q) == q[1] % q[2] = 0 /\ q[1] >= q[2]
C10_AllRulesHold(start, end, total) ==
    /\ C10_PositiveInteger(start)
    /\ C10_PositiveInteger(end)
    /\ start[1] * end[2] <= end[1] * start[2]
    /\ end[1] * total[2] <= total[1] * end[2]
    /\ (end[1] * start[2] - start[1] * end[2]) + start[2] * end[2]
           <= 1000 * (start[2] * end[2])

\* C10: validateFrameRange returns valid exactly when start and end are
\* positive integers, start <= end, end <= totalFrames and
\* end - start + 1 <= 1000; frameCount is end - start + 1 in every case.
C10_ValidIffAllRulesHold ==
    validation.called =>
        /\ validation.result.valid
               <=> C10_AllRulesHold(validation.startFrame, validation.endFrame,
                                    validation.totalFrames)
        /\ validation.result.frameCount[1] * (validation.startFrame[2] * validation.endFrame[2])
               = ((validation.endFrame[1] * validation.startFrame[2]
                     - validation.startFrame[1] * validation.endFrame[2])
                  + validation.startFrame[2] * validation.endFrame[2])
                 * validation.result.frameCount[2]

\* a fractional start below an integer end: invalid only for not being an integer
C10_Witness ==
    /\ validation.called
    /\ validation.startFrame = Rat(3, 2)
    /\ validation.endFrame = FromInt(4)
    /\ validation.totalFrames = FromInt(6)
    /\ ~validation.result.valid
    /\ validation.result.errors = <<ErrStartNotPositive>>

\* the messages of the rules a call violates
C11_ViolatedRules(start, end, total) ==
    (IF C10_PositiveInteger(start) THEN {} ELSE {ErrStartNotPositive})
        \cup (IF C10_PositiveInteger(end) THEN {} ELSE {ErrEndNotPositive})
        \cup (IF start[1] * end[2] <= end[1] * start[2] THEN {} ELSE {ErrStartAfterEnd})
        \cup (IF end[1] * total[2] <= total[1] * end[2] THEN {} ELSE {ErrEndExceedsTotal(total)})
        \cup (IF (end[1] * start[2] - start[1] * end[2]) + start[2] * end[2]
                     <= 1000 * (start[2] * end[2])
              THEN {} ELSE {ErrTooManyFrames})

\* C11: validateFrameRange never short-circuits: errors holds one entry for
\* each violated rule and none for a rule that holds, so k violated rules give
\* k errors; validate(500, 100, 1000) is invalid and reports start <= end.
C11_AllViolationsReported ==
    validation.called =>
        LET errors == validation.result.errors
            violated == C11_ViolatedRules(validation.startFrame, validation.endFrame,
                                          validation.totalFrames)
        IN  /\ {errors[i] : i \in 1..Len(errors)} = violated
            /\ Len(errors) = Cardinality(violated)
            /\ (validation.startFrame = FromInt(500) /\ validation.endFrame = FromInt(100)
                    /\ validation.totalFrames = FromInt(1000)) =>
                   (~validation.result.valid /\ ErrStartAfterEnd \in violated)

\* validate(500, 100, 1000) has been evaluated
C11_Witness ==
    /\ validation.called
    /\ validation.startFrame = FromInt(500)
    /\ validation.endFrame = FromInt(100)
    /\ validation.totalFrames = FromInt(1000)
    /\ ~validation.result.valid
    /\ \E i \in 1..Len(validation.result.errors) :
           validation.result.errors[i] = ErrStartAfterEnd

(***************************************************************************)
(* Properties of the option normalization                                  *)
(***************************************************************************)
\* the probe succeeded and the options of the call have been normalized
Normalized == pc = "called" /\ locals # NoLocals

\* a supplied value in thousandths of a second, in seconds as <<n, d>>:
\* above 300 it counts frames and is divided by fps
C12_Seconds(v, fps) == IF v > 300 * 1000 THEN <<v, 1000 * fps>> ELSE <<v, 1000>>
C12_Clamped(q) ==
    IF 2 * q[1] < q[2] THEN <<1, 2>>
    ELSE IF q[1] > 60 * q[2] THEN <<60, 1>>
    ELSE q

RECURSIVE C12_Gcd(_, _)
C12_Gcd(a, b) == IF b = 0 THEN a ELSE C12_Gcd(b, a % b)
\* a positive rational in lowest terms
C12_Reduced(q) == <<q[1] \div C12_Gcd(q[1], q[2]), q[2] \div C12_Gcd(q[1], q[2])>>

\* C12: a supplied minSceneLength other than 0 is divided by fps when it is
\* above 300 and taken as seconds when it is at most 300, and the result is
\* clamped to [0.5, 60]; a supplied 0 is replaced by the default of 1 s, as
\* an absent one is; the value handed to the primary and to the fallback
\* detector lies in [0.5, 60] seconds; 450 at fps = 30 becomes 15 and 0.2
\* becomes 0.5.
C12_MinSceneLengthNormalized ==
    Normalized =>
        LET m == locals.minSceneLengthSec
            opt == options.minSceneLength
        IN  /\ m[2] > 0 /\ 2 * m[1] >= m[2] /\ m[1] <= 60 * m[2]
            /\ (IsNumber(opt) /\ opt.v # 0) =>
                   C12_Reduced(m) = C12_Reduced(C12_Clamped(C12_Seconds(opt.v, locals.fps)))
            /\ opt \in {Undefined, Num(0)} => m[1] = DEFAULT_MIN_SCENE_LENGTH * m[2]
            /\ (opt = Num(450000) /\ locals.fps = 30) => m[1] = 15 * m[2]
            /\ opt = Num(200) => 2 * m[1] = m[2]
            /\ \A i \in FallbackIds :
                   /\ 2 * fallbacks[i].minSceneLength >= locals.fps
                   /\ fallbacks[i].minSceneLength <= 60 * locals.fps

\* C12 as stated: every supplied number, 0 included, is taken as seconds when
\* it is at most 300 and clamped to [0.5, 60], so that 0 becomes 0.5.
C12_EverySuppliedValueClamped ==
    Normalized =>
        LET m == locals.minSceneLengthSec
            opt == options.minSceneLength
        IN  IsNumber(opt) =>
                C12_Reduced(m) = C12_Reduced(C12_Clamped(C12_Seconds(opt.v, locals.fps)))

\* 450 at 30 fps was handed to the fallback detector as 15 s = 450 frames
C12_Witness ==
    /\ Normalized
    /\ options.minSceneLength = Num(450000) /\ locals.fps = 30
    /\ locals.minSceneLengthSec[1] = 15 * locals.minSceneLengthSec[2]
    /\ Len(fallbacks) >= 1 /\ fallbacks[1].minSceneLength = 450

\* C13: the threshold a detector compares the signal against is the caller's
\* threshold option on the detector's scale, rising with the option, for the
\* fallback as for the primary, and never a fixed constant: the value a call
\* with the default option compares against (0.3) is not the one used for a
\* call with another threshold option.
C13_FallbackThresholdFollowsOption ==
    Normalized =>
        \A i \in FallbackIds :
            fallbacks[i].threshold = FallbackThreshold
                => locals.threshold = DEFAULT_THRESHOLD

(***************************************************************************)
(* Properties of the fallback detector                                     *)
(***************************************************************************)
\* the run of detectScenesFFmpeg has resolved
FallbackDetected(i) == fallbacks[i].pc \in {"detected", "probing", "returned"}
\* the last scene of the run starts at the last open boundary
C14_TrailingAppended(fb) ==
    Len(fb.scenes) >= 1 /\ fb.scenes[Len(fb.scenes)].start_frame = fb.lastSceneFrame
\* a scene was closed at a boundary before the stream ended
C14_OtherSceneExists(fb) ==
    \E k \in 1..Len(fb.scenes) : fb.scenes[k].start_frame < fb.lastSceneFrame

\* C14: when the signal stream has ended, the scene from the last open
\* boundary to total_frames is appended unless its length,
\* total_frames - lastBoundaryStart + 1, is below minSceneLengthFrames / 2
\* and another scene exists; the result of the fallback is never empty.
C14_TrailingSceneRule ==
    \A i \in FallbackIds :
        FallbackDetected(i) =>
            LET fb == fallbacks[i]
                trailingLength == TotalFrames - fb.lastSceneFrame + 1
            IN  /\ Len(fb.scenes) >= 1
                /\ C14_TrailingAppended(fb)
                       <=> ~(2 * trailingLength < fb.minSceneLength
                                 /\ C14_OtherSceneExists(fb))

\* the frame number the stderr handler computes for the event of a tick
C15_FrameNum(fb, tick) == (2 * PtsTime(tick)[1] * fb.fps + 1000 * PtsTime(tick)[2])
                              \div (2 * 1000 * PtsTime(tick)[2])
\* the events the run has consumed
C15_Consumed(fb) ==
    {t \in DOMAIN video.signal : t <= fb.cursor /\ video.signal[t] > fb.threshold}
C15_Ends(fb) == {fb.scenes[k].end_frame : k \in 1..Len(fb.scenes)}
\* the start of the scene that is open when frame f arrives
C15_OpenAt(fb, f) ==
    LET before == {e \in C15_Ends(fb) : e < f}
    IN  IF before = {} THEN 1
        ELSE (CHOOSE e \in before : \A x \in before : x <= e) + 1

\* C15: the fallback records a boundary at an event's frame exactly when the
\* distance from the last boundary start to the frame is >= minSceneLengthFrames;
\* the closed scene is [lastBoundaryStart, frame] and the next opens at
\* frame + 1, so every non-final scene has at least minSceneLengthFrames
\* frames and consecutive scenes are contiguous.
C15_BoundaryRule ==
    \A i \in FallbackIds :
        LET fb == fallbacks[i]
            n == Len(fb.scenes)
        IN  /\ fb.pc = "streaming" =>
                /\ \A t \in C15_Consumed(fb) :
                       C15_FrameNum(fb, t) \in C15_Ends(fb)
                           <=> C15_FrameNum(fb, t) - C15_OpenAt(fb, C15_FrameNum(fb, t))
                                   >= fb.minSceneLength
                /\ \A k \in 1..n :
                       /\ \E t \in C15_Consumed(fb) : fb.scenes[k].end_frame = C15_FrameNum(fb, t)
                       /\ fb.scenes[k].start_frame = C15_OpenAt(fb, fb.scenes[k].end_frame)
                /\ fb.lastSceneFrame = IF n = 0 THEN 1 ELSE fb.scenes[n].end_frame + 1
            /\ \A k \in 1..(n - 1) :
                   /\ fb.scenes[k].end_frame - fb.scenes[k].start_frame + 1 >= fb.minSceneLength
                   /\ fb.scenes[k + 1].start_frame = fb.scenes[k].end_frame + 1

\* a run that closed two scenes and passed over an event between them, the
\* first scene closed at a distance of exactly minSceneLengthFrames
C15_Witness ==
    \E i \in FallbackIds :
        LET fb == fallbacks[i]
        IN  /\ fb.pc = "streaming"
            /\ Len(fb.scenes) = 2
            /\ fb.scenes[1].end_frame - fb.scenes[1].start_frame = fb.minSceneLength
            /\ \E t \in C15_Consumed(fb) : C15_FrameNum(fb, t) \notin C15_Ends(fb)

(***************************************************************************)
(* Properties of the scenes detectScenes returns                           *)
(***************************************************************************)
\* C16: in every scene detectScenes returns, duration is the returned
\* end_time minus the returned start_time (times in whole milliseconds).
C16_DurationFromReturnedTimes ==
    Resolved =>
        \A i \in 1..Len(promise.value) :
            promise.value[i].duration
                = promise.value[i].end_time - promise.value[i].start_time

\* C17: every scene detectScenes returns has start_frame <= end_frame, also
\* for a video of total_frames = 0 and for frame numbers above total_frames
\* before the clamp.
C17_StartNotAfterEnd ==
    Resolved =>
        \A i \in 1..Len(promise.value) :
            promise.value[i].start_frame <= promise.value[i].end_frame

\* C18: in the list detectScenes returns, the scene at position i has
\* scene_number = i and the scenes are in increasing order of start_frame,
\* whichever detector produced the list.
C18_NumberedInOrder ==
    Resolved =>
        /\ \A i \in 1..Len(promise.value) : promise.value[i].scene_number = i
        /\ \A i \in 1..(Len(promise.value) - 1) :
               promise.value[i].start_frame < promise.value[i + 1].start_frame

(***************************************************************************)
(* Failures of /extract                                                    *)
(***************************************************************************)
\* C19: /extract reports a rejected range and a failed extraction as
\* different outcomes: a rejected range is answered 400 with the validation
\* errors and never 500; a failure of extractSegment is answered 500 without
\* validation errors.
C19_FailuresDistinguishable ==
    /\ Len(extract.validation.errors) > 0 =>
        /\ extract.pc = "responded"
        /\ extract.response.status = 400
        /\ extract.response.errors = extract.validation.errors
    /\ extract.response.status = 500 =>
        /\ extract.response.errors = <<>>
        /\ Len(extract.validation.errors) = 0
    /\ (extract.pc = "responded" /\ extract.validation.valid
            /\ extract.response.status # 200) =>
        /\ extract.response.status = 500
        /\ extract.response.error \in ExtractionErrors

\* extractSegment failed for a range that had passed the validation
C19_Witness ==
    /\ extract.pc = "responded"
    /\ extract.validation.valid
    /\ extract.response.status = 500
    /\ extract.response.error \in ExtractionErrors
    /\ extract.startFrame >= 1 /\ extract.endFrame <= extract.totalFrames

(***************************************************************************)
(* Properties of concurrent calls                                          *)
(***************************************************************************)
C20_CallOf(c) == IF c = peer.current THEN CallState ELSE peer.saved

\* the run of detectScenesFFmpeg over the whole stream, with no other call
RECURSIVE C20_RunFallback(_)
C20_RunFallback(fb) ==
    IF SelectedAfter(fb) = {}
    THEN EndOfStream(fb, getVideoInfo(video))
    ELSE C20_RunFallback(StderrLine(fb, NextSelected(fb)))

C20_IsData(e) == e.type = "data"
C20_IsStderr(e) == e.type = "stderr"
C20_Chunks(evs) ==
    [i \in 1..Len(SelectSeq(evs, C20_IsData)) |-> SelectSeq(evs, C20_IsData)[i].chunk]

\* what a call resolves with when it is the only call: the scenes its own
\* primary process printed, or the fallback result for its own options
C20_AloneResult(req) ==
    LET info == getVideoInfo(video)
        fps == OrDefault(req.options.fps, info.fps)
        sec == NormalizeMinSceneLength(req.options.minSceneLength, fps)
        printed == C20_Chunks(req.script)
        primaryOk == /\ \A i \in 1..Len(req.script) :
                            /\ req.script[i].type # "error"
                            /\ req.script[i].type = "close" => req.script[i].code = 0
                     /\ Parses(printed)
                     /\ printed[1].kind # "error"
    IN  IF primaryOk
        THEN Resolve(Pending,
                     IF printed[1].kind = "scenes" THEN printed[1].scenes ELSE <<>>,
                     "primary")
        ELSE Resolve(Pending,
                     CleanScenes(C20_RunFallback(fallbackDetectScenes(sec, fps)).scenes,
                                 info),
                     "fallback")

C20_RunsAsAlone(c) ==
    LET st == C20_CallOf(c)
        req == peer.requests[c]
        delivered == SubSeq(req.script, 1, Len(req.script) - Len(st.events))
    IN  (st.pc = "called" /\ st.locals # NoLocals) =>
            /\ st.options = req.options
            /\ Len(st.events) <= Len(req.script)
            /\ st.events = SubSeq(req.script, Len(req.script) - Len(st.events) + 1,
                                  Len(req.script))
            /\ st.output = C20_Chunks(delivered)
            /\ Len(st.errorOutput) = Len(SelectSeq(delivered, C20_IsStderr))
            /\ st.promise.state = "resolved" => st.promise = C20_AloneResult(req)

\* C20: when the handlers of two detectScenes calls interleave in any order,
\* each call captures only the output of its own primary process and resolves
\* with the result it produces when run alone.
C20_CallsIndependent == \A c \in 1..2 : C20_RunsAsAlone(c)

\* two interleaved calls on the same file resolved by the fallback with
\* different scene lists, after both primary processes had printed to stdout
C20_Witness ==
    /\ Len(peer.requests) = 2
    /\ \A c \in 1..2 :
           /\ C20_CallOf(c).promise.state = "resolved"
           /\ C20_CallOf(c).promise.by = "fallback"
           /\ Len(C20_CallOf(c).output) = 1
    /\ C20_CallOf(1).promise.value # C20_CallOf(2).promise.value

(***************************************************************************)
(* Defaults of detectScenes                                                *)
(***************************************************************************)
\* C21: detectScenes uses the probed fps when options.fps is absent, 1.0 s
\* when options.minSceneLength is absent and 20 when options.threshold is
\* absent; a supplied number of the documented domain (fps > 0, threshold in
\* 1..100, minSceneLength > 0) is used as given, minSceneLength before its
\* normalization.
C21_DefaultsApplied ==
    Normalized =>
        /\ options.fps = Undefined => locals.fps = getVideoInfo(video).fps
        /\ (IsNumber(options.fps) /\ options.fps.v > 0) => locals.fps = options.fps.v
        /\ options.threshold = Undefined => locals.threshold = 20
        /\ (IsNumber(options.threshold) /\ options.threshold.v \in 1..100) =>
               locals.threshold = options.threshold.v
        /\ options.minSceneLength = Undefined =>
               locals.minSceneLengthSec[1] = locals.minSceneLengthSec[2]
        /\ (IsNumber(options.minSceneLength) /\ options.minSceneLength.v > 0) =>
               C12_Reduced(locals.minSceneLengthSec)
                   = C12_Reduced(C12_Clamped(C12_Seconds(options.minSceneLength.v,
                                                         locals.fps)))

\* a call that gives fps 24 for a 30 fps file and threshold 50, and leaves
\* minSceneLength out
C21_Witness ==
    /\ Normalized
    /\ options = [fps |-> Num(24), minSceneLength |-> Undefined, threshold |-> Num(50)]
    /\ video.fps = 30
    /\ locals.fps = 24 /\ locals.threshold = 50
    /\ locals.minSceneLengthSec[1] = locals.minSceneLengthSec[2]

(***************************************************************************)
(* Fixed-length window of calculateFrameRange                              *)
(***************************************************************************)
\* C27: with a positive length, calculateFrameRange returns a window that does
\* not depend on the scene's end: frame_count never exceeds length, it equals
\* length when start+offset >= 1 and start+offset+length-1 <= totalFrames, and
\* a scene with the same start and any other end frame gives the same result.
C27_FixedLengthWindow ==
    (calc.called /\ IsNumber(calc.length) /\ calc.length.v > 0) =>
        LET shifted == calc.startFrame + calc.offset
        IN  /\ calc.result.frame_count <= calc.length.v
            /\ (shifted >= 1 /\ shifted + calc.length.v - 1 <= calc.totalFrames) =>
                   /\ calc.result.frame_count = calc.length.v
                   /\ calc.result.start_frame = shifted
                   /\ calc.result.end_frame = shifted + calc.length.v - 1
            /\ \A e \in SceneFrames :
                   e >= calc.startFrame =>
                       calculateFrameRange(calc.startFrame, e, calc.offset,
                                           calc.length, calc.totalFrames) = calc.result

\* a one-frame scene extended by length 3 past its own end
C27_Witness ==
    /\ calc.called
    /\ calc.startFrame = 1 /\ calc.endFrame = 1 /\ calc.offset = 1
    /\ calc.length = Num(3) /\ calc.totalFrames = 6
    /\ calc.result = [start_frame |-> 2, end_frame |-> 4, frame_count |-> 3]

(***************************************************************************)
(* The fallback runs only after a primary failure                          *)
(***************************************************************************)
\* the primary's 'close' arrives with exit code 0 and stdout holds one JSON
\* object without an error field
C28_PrimarySucceeds ==
    /\ Delivering("close") /\ Head(events).code = 0
    /\ Len(output) = 1 /\ output[1].kind \in {"scenes", "noscenes"}

\* the event being delivered is one of the four primary failures
C28_PrimaryFails ==
    \/ Delivering("error")
    \/ /\ Delivering("close")
       /\ \/ Head(events).code # 0
          \/ Len(output) # 1
          \/ output[1].kind \notin {"scenes", "noscenes"}

C28_Step ==
    /\ Len(fallbacks') > Len(fallbacks) => C28_PrimaryFails
    /\ (C28_PrimarySucceeds /\ events' = Tail(events)) =>
           /\ promise'.state = "resolved" /\ promise'.by = "primary"
           /\ promise'.value = (IF output[1].kind = "scenes"
                                THEN output[1].scenes ELSE <<>>)
           /\ Len(fallbacks') = 0
    /\ promise.by = "primary" => Len(fallbacks') = 0

\* C28: a fallback is started only by a step that handles a primary failure;
\* when the primary closes with code 0 and its stdout parses to an object
\* without an error field, detectScenes resolves with the primary's scenes
\* (or [] when the field is missing) and no fallback is ever invoked.
C28_FallbackOnlyAfterFailure == [][C28_Step]_vars

\* a call settled by the primary's scene list, with no fallback started
C28_Witness ==
    /\ pc = "called" /\ events = <<>>
    /\ Len(output) = 1 /\ output[1].kind = "scenes" /\ Len(output[1].scenes) >= 1
    /\ Resolved /\ promise.by = "primary" /\ promise.value = output[1].scenes
    /\ Len(fallbacks) = 0 /\ log = {}

(***************************************************************************)
(* The range /extract derives                                              *)
(***************************************************************************)
\* the handler got as far as validating a derived range
C26_RangeDerived == extract.pc # "idle" /\ extract.validation # NoValidation

\* C26: the range /extract validates is start = start_frame + start_offset and
\* end = start + extract_frames - 1 when extract_frames is provided and > 0,
\* otherwise end = start + (end_frame - start_frame), also when extract_frames
\* is present but 0, negative or not a number and start_offset is not 0.
C26_RangeAsComputeRange ==
    C26_RangeDerived =>
        LET body == extract.body
            offset == ParseInt(body.start_offset)
            length == ParseInt(body.extract_frames)
            start == ParseInt(body.start_frame).v
                         + (IF IsNumber(offset) THEN offset.v ELSE 0)
        IN  /\ extract.startFrame = start
            /\ extract.endFrame
                   = IF IsNumber(length) /\ length.v > 0
                     THEN start + length.v - 1
                     ELSE start + (ParseInt(body.end_frame).v
                                       - ParseInt(body.start_frame).v)

(***************************************************************************)
(* Path safety                                                             *)
(***************************************************************************)
\* the resolved path is the allowed directory or lies inside it
C23_Within(resolvedPath, resolvedAllowed) ==
    \/ resolvedPath = resolvedAllowed
    \/ StartsWith(resolvedPath, resolvedAllowed \o <<"/">>)

\* the handler passed the path check: it looked the file up on disk, and
\* probed and cut it when it was there
C23_PassedPathCheck ==
    /\ extract.pc # "idle"
    /\ extract.response.error \notin {"filepath is required",
                                      "start_frame and end_frame are required",
                                      "Invalid file path"}

\* C23: isPathSafe accepts a path only when it resolves to the allowed
\* directory or into it, so /extract goes on only with a file of the upload
\* folder; a file of a sibling folder whose name begins with the upload
\* folder's name is refused.
C23_OnlyInsideUploadFolder ==
    C23_PassedPathCheck =>
        C23_Within(PathResolve(extract.body.filepath), UPLOAD_FOLDER)

(***************************************************************************)
(* Parameter checks of /detect-scenes                                      *)
(***************************************************************************)
\* the request passed the checks that precede the parameters: filepath
\* given, inside the upload folder, on disk, and probed
C24_ReachedParameters ==
    /\ detectRoute.pc \in {"detecting", "responded"}
    /\ \/ pc # "idle"
       \/ detectRoute.error \notin {"filepath is required", "Invalid file path",
                                    "Video file not found"} \cup ProbeErrors

\* the field is absent or reads as a number of [lo, hi]
C24_Acceptable(field, lo, hi) ==
    \/ field = Undefined
    \/ /\ field.t \in {"number", "text"}
       /\ field.v >= lo /\ field.v <= hi

C24_BothAcceptable ==
    /\ C24_Acceptable(detectRoute.body.threshold, 1, 100)
    /\ C24_Acceptable(detectRoute.body.min_scene_length, 100, 300000)

\* C24: a /detect-scenes request whose threshold, read by parseFloat (which
\* takes text with a numeric prefix as that number), is not a number of
\* [1, 100], or whose min_scene_length so read is not a number of [0.1, 300],
\* never invokes detectScenes and spawns nothing; it is answered 400 once the
\* checks on filepath and the probe of the file are passed, and 400, 403, 404
\* or 500 by those checks otherwise; a request that passed those checks with
\* both values absent or in range invokes detectScenes, once.
C24_ParametersChecked ==
    /\ (detectRoute.pc # "idle" /\ ~C24_BothAcceptable) =>
           /\ pc = "idle" /\ events = <<>> /\ Len(fallbacks) = 0 /\ promise = Pending
           /\ detectRoute.pc \in {"probing", "responded"}
           /\ detectRoute.pc = "responded" => detectRoute.status \in {400, 403, 404, 500}
    /\ (C24_ReachedParameters /\ ~C24_BothAcceptable) => detectRoute.status = 400
    /\ (C24_ReachedParameters /\ C24_BothAcceptable) =>
           /\ pc \in {"probing", "called"}
           /\ detectRoute.status \in {0, 200, 500}

\* the field is absent or holds a number of [lo, hi]
C24_NumberInRange(field, lo, hi) ==
    \/ field = Undefined
    \/ IsNumber(field) /\ field.v >= lo /\ field.v <= hi

\* C24 as stated: every answered request whose threshold is not a number of
\* [1, 100] or whose min_scene_length is not a number of [0.1, 300] was
\* answered 400 without a call of detectScenes, and every other answered
\* request reached detectScenes.
C24_EveryRequestChecked ==
    detectRoute.pc = "responded" =>
        IF /\ C24_NumberInRange(detectRoute.body.threshold, 1, 100)
           /\ C24_NumberInRange(detectRoute.body.min_scene_length, 100, 300000)
        THEN pc # "idle"
        ELSE detectRoute.status = 400 /\ pc = "idle"

\* a threshold of 101 on an uploaded file, with a valid min_scene_length
C24_Witness ==
    /\ detectRoute.pc = "responded" /\ detectRoute.status = 400
    /\ detectRoute.error = "threshold must be between 1 and 100"
    /\ detectRoute.body.threshold = Num(101)
    /\ detectRoute.body.min_scene_length = Num(550)
    /\ pc = "idle"

\* C29: every min_scene_length that /detect-scenes hands to detectScenes is
\* at most 300 s, so it is never taken for a frame count, and the minimum
\* scene length in effect is min(60, max(0.5, min_scene_length)).
C29_SecondsOnly ==
    (detectRoute.pc # "idle" /\ Normalized /\ IsNumber(options.minSceneLength)) =>
        /\ options.minSceneLength = ParseFloat(detectRoute.body.min_scene_length)
        /\ options.minSceneLength.v <= 300000
        /\ C12_Reduced(locals.minSceneLengthSec)
               = C12_Reduced(<<Min(60000, Max(500, options.minSceneLength.v)), 1000>>)

\* the largest accepted value, 300 s, is clamped to 60 s
C29_Witness ==
    /\ detectRoute.pc # "idle" /\ Normalized
    /\ detectRoute.body.min_scene_length = Num(300000)
    /\ C12_Reduced(locals.minSceneLengthSec) = <<60, 1>>

(***************************************************************************)
(* One frame rate per file                                                 *)
(***************************************************************************)
\* C25: the fps /extract converts frame numbers to times with is the fps a
\* detection on the same file used, which for /detect-scenes is the probed
\* fps of the file (extract.fps), whether the request gives an fps or not.
C25_ExtractionUsesDetectionFps ==
    ExtractionAttempted =>
        /\ extract.videoFps = extract.fps
        /\ extract.startTime = Rat(extract.startFrame - 1, extract.fps)
        /\ extract.duration
               = Rat(extract.endFrame - extract.startFrame + 1, extract.fps)

(***************************************************************************)
(* The temporary file of /upload                                           *)
(***************************************************************************)
\* C30: when /upload has answered a request that stored a temporary file,
\* the file is gone and fs.unlinkSync was called on it exactly once, on every
\* path: invalid target_fps, re-encoding failure, probe or detection failure
\* after re-encoding, and success; no path deletes it a second time.
C30_TempFileDeletedOnce ==
    /\ upload.unlinks <= 1
    /\ fileExists(TempFile) => upload.pc \in {"received", "reencoding", "encoding"}
    /\ upload.pc = "responded" =>
           /\ ~fileExists(TempFile)
           /\ upload.unlinks = (IF upload.stored THEN 1 ELSE 0)

\* detection failed after the re-encoding had deleted the file
C30_Witness ==
    /\ upload.pc = "responded" /\ upload.status = 500 /\ upload.failedAt = "detect"
    /\ upload.stored /\ upload.tempPath = <<>>
    /\ ~fileExists(TempFile) /\ fileExists(OutputFile) /\ upload.unlinks = 1

=============================================================================
